---- MODULE Spec2Model ----
(***************************************************************************)
(* San Jego: towers, the game field with in-place make_move / take_back,   *)
(* the rule sets, the game node's move generation and the alpha-beta       *)
(* search, as state machines.                                              *)
(*                                                                         *)
(* Python objects are modelled with their identity: a Tower is a reference *)
(* into `heap` (reference -> structure, index 1 = topmost brick), the      *)
(* field is the list of references GameField.field, and a Move holds the   *)
(* reference Move.from_tower (or None).                                    *)
(***************************************************************************)
EXTENDS Integers, Sequences, FiniteSets, TLC

\* Python's None, for a position or a Move
None == <<>>
\* Python's None, for a reference to a Tower (references are 1, 2, ...)
NoTower == 0
\* Tower.structure is None
NoStructure == <<-1>>

\* ------------------------------------------------------------------------
\* Bounds of the model
\* ------------------------------------------------------------------------
\* rows, columns and cells of the fields that are searched
MaxHeight == 2
MaxWidth == 3
MaxCells == 4
\* depth of a search (besides the depth main.py computes)
MaxDepth == 3
\* Moves a caller of the GameField holds made at a time
MaxMoves == 2
\* bricks on the field after a set_tower_at of the caller
MaxBricks == 3
\* cells of the field of the caller
MaxFieldCells == 3
\* calls of the caller
MaxCalls == 4
\* cells of a field whose towers are drawn freely
MaxQueryCells == 4
\* calls on a pair of towers
MaxTowerCalls == 2
\* depth of the searches of the scenarios (besides the depth main.py computes)
MaxScenarioDepth == 4

\* ------------------------------------------------------------------------
\* Program constants
\* ------------------------------------------------------------------------
\* default player ids of GameField.__init__
Player1 == 0
Player2 == 1
\* float('inf'): larger than any field value of the model
Inf == 1000

\* Move.skip(): from_pos = to_pos = (-1, -1)
SkipPos == <<-1, -1>>

\* ------------------------------------------------------------------------
\* Small helpers
\* ------------------------------------------------------------------------
Abs(n) == IF n < 0 THEN -n ELSE n

SetMax(S) == CHOOSE m \in S : \A n \in S : n <= m

\* Python's max(iterable, default=0)
MaxDefault0(S) == IF S = {} THEN 0 ELSE SetMax(S)

\* s[:n] and s[n:] of a Python list
Take(s, n) == IF n >= Len(s) THEN s ELSE SubSeq(s, 1, n)
Drop(s, n) == IF n >= Len(s) THEN <<>> ELSE SubSeq(s, n + 1, Len(s))

\* ------------------------------------------------------------------------
\* The heap of Tower objects
\* ------------------------------------------------------------------------
\* the reference a newly constructed object gets: the smallest unused one
NewRef(hp) ==
    CHOOSE r \in 1..(Cardinality(DOMAIN hp) + 1) :
        /\ r \notin DOMAIN hp
        /\ \A q \in 1..(Cardinality(DOMAIN hp) + 1) : q \notin DOMAIN hp => r <= q

\* hp with a new object `r` of structure `s`
Alloc(hp, r, s) == [q \in DOMAIN hp \cup {r} |-> IF q = r THEN s ELSE hp[q]]

\* objects no longer referenced disappear
Collect(hp, roots) == [q \in DOMAIN hp \cap roots |-> hp[q]]

\* ------------------------------------------------------------------------
\* Tower
\* ------------------------------------------------------------------------
\* Tower.height
Tower_height(hp, t) == Len(hp[t])

\* mutant of Tower.owner: the brick at the bottom
Tower_owner_bottom(hp, t) == hp[t][Len(hp[t])]

\* Tower.owner (only read where the height is > 0)
Tower_owner(hp, t) == hp[t][1]

\* Tower.__eq__: structural equality
Tower_eq(hp, a, b) == hp[a] = hp[b]

\* mutant of move_on_top_of: `tower` is added on top of self
move_on_top_of_below(hp, self, tower) ==
    IF tower = NoTower
    THEN [heap |-> hp, exc |-> "ValueError"]
    ELSE IF hp[self] = NoStructure \/ hp[tower] = NoStructure
    THEN [heap |-> hp, exc |-> "ValueError"]
    ELSE [heap |-> [hp EXCEPT ![self] = hp[tower] \o hp[self]], exc |-> "none"]

\* Tower.move_on_top_of: self.structure += tower.structure (in place)
move_on_top_of(hp, self, tower) ==
    IF tower = NoTower
    THEN [heap |-> hp, exc |-> "ValueError"]
    ELSE IF hp[self] = NoStructure \/ hp[tower] = NoStructure
    THEN [heap |-> hp, exc |-> "ValueError"]
    ELSE [heap |-> [hp EXCEPT ![self] = hp[self] \o hp[tower]], exc |-> "none"]

\* mutant of detach: one brick is removed, whatever the height of `tower`
detach_one_brick(hp, self, tower) ==
    IF tower = NoTower
    THEN [heap |-> hp, exc |-> "ValueError"]
    ELSE IF hp[self] = NoStructure \/ hp[tower] = NoStructure
    THEN [heap |-> hp, exc |-> "TypeError"]
    ELSE IF Take(hp[self], Len(hp[tower])) # hp[tower]
    THEN [heap |-> hp, exc |-> "ValueError"]
    ELSE [heap |-> [hp EXCEPT ![self] = Drop(hp[self], 1)], exc |-> "none"]

\* Tower.detach: remove `tower` from the top of self (in place); a structure
\* that is None can neither be sliced nor measured
detach(hp, self, tower) ==
    IF tower = NoTower
    THEN [heap |-> hp, exc |-> "ValueError"]
    ELSE IF hp[self] = NoStructure \/ hp[tower] = NoStructure
    THEN [heap |-> hp, exc |-> "TypeError"]
    ELSE IF Take(hp[self], Len(hp[tower])) # hp[tower]
    THEN [heap |-> hp, exc |-> "ValueError"]
    ELSE [heap |-> [hp EXCEPT ![self] = Drop(hp[self], Len(hp[tower]))], exc |-> "none"]

\* ------------------------------------------------------------------------
\* Move
\* ------------------------------------------------------------------------
\* Move.__init__
NewMove(from_pos, to_pos) ==
    [from_pos |-> from_pos, to_pos |-> to_pos, from_tower |-> NoTower]

\* Move.already_made
already_made(move) == move.from_tower # NoTower

\* mutant of is_skip_move: no move is taken for a skip move
is_skip_move_never(move) == FALSE

\* Move.is_skip_move
is_skip_move(move) == move.from_pos = SkipPos /\ SkipPos = move.to_pos

\* ------------------------------------------------------------------------
\* GameField
\* ------------------------------------------------------------------------
InRange(gf, pos) ==
    /\ 0 <= pos[1] /\ pos[1] < gf.height
    /\ 0 <= pos[2] /\ pos[2] < gf.width

\* index of a position in GameField.field (a Python list, 0-based)
FieldIndex(gf, pos) == pos[1] * gf.width + pos[2] + 1

\* mutant of get_tower_at: no check of the range, the index wraps around as
\* a negative index of a Python list does
get_tower_at_wraps(gf, pos) ==
    gf.field[((pos[1] * gf.width + pos[2]) % Len(gf.field)) + 1]

\* GameField.get_tower_at
get_tower_at(gf, pos) ==
    IF ~InRange(gf, pos) THEN NoTower ELSE gf.field[FieldIndex(gf, pos)]

\* mutant of set_tower_at: None leaves the tower of the position in place
set_tower_at_not_cleared(gf, hp, pos, tower) ==
    IF ~InRange(gf, pos)
    THEN [gf |-> gf, heap |-> hp, ret |-> FALSE]
    ELSE IF tower = NoTower
    THEN [gf |-> gf, heap |-> hp, ret |-> TRUE]
    ELSE [gf |-> [gf EXCEPT !.field[FieldIndex(gf, pos)] = tower],
          heap |-> hp, ret |-> TRUE]

\* GameField.set_tower_at
set_tower_at(gf, hp, pos, tower) ==
    IF ~InRange(gf, pos)
    THEN [gf |-> gf, heap |-> hp, ret |-> FALSE]
    ELSE IF tower = NoTower
    THEN LET r == NewRef(hp)
         IN  [gf |-> [gf EXCEPT !.field[FieldIndex(gf, pos)] = r],
              heap |-> Alloc(hp, r, <<>>), ret |-> TRUE]
    ELSE [gf |-> [gf EXCEPT !.field[FieldIndex(gf, pos)] = tower],
          heap |-> hp, ret |-> TRUE]

\* mutant of GameField_init: every tower belongs to player1
GameField_init_one_colour(h, w, p1, p2) ==
    [gf |-> [height |-> h, width |-> w, player1 |-> p1, player2 |-> p2,
             field |-> [i \in 1..(h * w) |-> i]],
     heap |-> [i \in 1..(h * w) |-> <<p1>>]]

\* GameField.__init__: chessboard pattern, player1 at (0, 0)
GameField_init(h, w, p1, p2) ==
    [gf |-> [height |-> h, width |-> w, player1 |-> p1, player2 |-> p2,
             field |-> [i \in 1..(h * w) |-> i]],
     heap |-> [i \in 1..(h * w) |->
                 LET x == (i - 1) \div w
                     y == (i - 1) % w
                 IN  << IF (x + y) % 2 = 0 THEN p1 ELSE p2 >>]]

\* the highest tower of `player` (0 if there is none)
Highest(gf, hp, player) ==
    MaxDefault0({Tower_height(hp, gf.field[i]) : i \in
        {j \in 1..Len(gf.field) :
            /\ gf.field[j] # NoTower
            /\ Tower_height(hp, gf.field[j]) > 0
            /\ Tower_owner(hp, gf.field[j]) = player}})

\* mutant of value: the highest towers are added
value_sum(gf, hp) == Highest(gf, hp, gf.player1) + Highest(gf, hp, gf.player2)

\* GameField.value
value(gf, hp) == Highest(gf, hp, gf.player1) - Highest(gf, hp, gf.player2)

\* result of a GameField method that leaves everything as it is
Unchanged(gf, hp, move, ret, exc) ==
    [gf |-> gf, heap |-> hp, move |-> move, ret |-> ret, exc |-> exc]

\* mutant of merge_towers: the copy of the mover is not stored in the move
merge_towers_not_recorded(gf, hp, from_pos, to_pos, move) ==
    LET top_tower == get_tower_at(gf, from_pos)
        lower_tower == get_tower_at(gf, to_pos)
        m == move_on_top_of(hp, top_tower, lower_tower)
        s1 == set_tower_at(gf, m.heap, to_pos, top_tower)
        s2 == set_tower_at(s1.gf, s1.heap, from_pos, NoTower)
    IN  IF m.exc # "none"
        THEN Unchanged(gf, hp, move, FALSE, m.exc)
        ELSE [gf |-> s2.gf, heap |-> s2.heap, move |-> move, ret |-> TRUE, exc |-> "none"]

\* GameField.make_move, the part after the checks: copy the mover, attach it
\* to the target, clear the source, remember the copy in the move
merge_towers(gf, hp, from_pos, to_pos, move) ==
    LET top_tower == get_tower_at(gf, from_pos)
        lower_tower == get_tower_at(gf, to_pos)
        top_tower_cpy == NewRef(hp)
        hp1 == Alloc(hp, top_tower_cpy, hp[top_tower])
        m == move_on_top_of(hp1, top_tower, lower_tower)
        s1 == set_tower_at(gf, m.heap, to_pos, top_tower)
        s2 == set_tower_at(s1.gf, s1.heap, from_pos, NoTower)
    IN  IF m.exc # "none"
        THEN Unchanged(gf, hp, move, FALSE, m.exc)
        ELSE [gf |-> s2.gf, heap |-> s2.heap,
              move |-> IF move # None
                       THEN [move EXCEPT !.from_tower = top_tower_cpy]
                       ELSE move,
              ret |-> TRUE, exc |-> "none"]

\* mutant of make_move_checked: the source is not cleared, the copy of the
\* mover stays at from_pos
make_move_checked_source_kept(gf, hp, from_pos, to_pos, move) ==
    IF from_pos = None THEN Unchanged(gf, hp, move, FALSE, "ValueError")
    ELSE IF to_pos = None THEN Unchanged(gf, hp, move, FALSE, "ValueError")
    ELSE IF from_pos = to_pos THEN Unchanged(gf, hp, move, FALSE, "none")
    ELSE IF get_tower_at(gf, from_pos) = NoTower \/ get_tower_at(gf, to_pos) = NoTower
    THEN Unchanged(gf, hp, move, FALSE, "none")
    ELSE IF move = None \/ merge_towers(gf, hp, from_pos, to_pos, move).exc # "none"
    THEN merge_towers(gf, hp, from_pos, to_pos, move)
    ELSE [merge_towers(gf, hp, from_pos, to_pos, move) EXCEPT
             !.gf.field[FieldIndex(gf, from_pos)] =
                 merge_towers(gf, hp, from_pos, to_pos, move).move.from_tower]

\* GameField.make_move, the checks on the two positions
make_move_checked(gf, hp, from_pos, to_pos, move) ==
    IF from_pos = None THEN Unchanged(gf, hp, move, FALSE, "ValueError")
    ELSE IF to_pos = None THEN Unchanged(gf, hp, move, FALSE, "ValueError")
    ELSE IF from_pos = to_pos THEN Unchanged(gf, hp, move, FALSE, "none")
    ELSE IF get_tower_at(gf, from_pos) = NoTower \/ get_tower_at(gf, to_pos) = NoTower
    THEN Unchanged(gf, hp, move, FALSE, "none")
    ELSE merge_towers(gf, hp, from_pos, to_pos, move)

\* mutant of make_move: a move that is made is made again
make_move_twice(gf, hp, from_pos, to_pos, move) ==
    IF move # None
    THEN IF is_skip_move(move) THEN Unchanged(gf, hp, move, TRUE, "none")
         ELSE make_move_checked(gf, hp, move.from_pos, move.to_pos, move)
    ELSE make_move_checked(gf, hp, from_pos, to_pos, move)

\* GameField.make_move(from_pos, to_pos, move): each argument may be None
make_move(gf, hp, from_pos, to_pos, move) ==
    IF move # None
    THEN IF is_skip_move(move) THEN Unchanged(gf, hp, move, TRUE, "none")
         ELSE IF already_made(move) THEN Unchanged(gf, hp, move, FALSE, "RuntimeError")
         ELSE make_move_checked(gf, hp, move.from_pos, move.to_pos, move)
    ELSE make_move_checked(gf, hp, from_pos, to_pos, move)

\* mutant of split_towers: the detached tower is not put back at from_pos
split_towers_not_put_back(gf, hp, move) ==
    LET tower_at_to_pos == get_tower_at(gf, move.to_pos)
        d == detach(hp, tower_at_to_pos, move.from_tower)
    IN  IF d.exc # "none"
        THEN Unchanged(gf, hp, move, FALSE, d.exc)
        ELSE [gf |-> gf, heap |-> d.heap,
              move |-> [move EXCEPT !.from_tower = NoTower],
              ret |-> FALSE, exc |-> "none"]

\* GameField.take_back, the part after the checks
split_towers(gf, hp, move) ==
    LET tower_at_to_pos == get_tower_at(gf, move.to_pos)
        d == detach(hp, tower_at_to_pos, move.from_tower)
        s == set_tower_at(gf, d.heap, move.from_pos, move.from_tower)
    IN  IF d.exc # "none"
        THEN Unchanged(gf, hp, move, FALSE, d.exc)
        ELSE [gf |-> s.gf, heap |-> s.heap,
              move |-> [move EXCEPT !.from_tower = NoTower],
              ret |-> FALSE, exc |-> "none"]

\* mutant of take_back: a whole tower is taken back
take_back_whole_tower(gf, hp, move) ==
    LET tower_at_from_pos == get_tower_at(gf, move.from_pos)
        tower_at_to_pos == get_tower_at(gf, move.to_pos)
    IN  IF is_skip_move(move) THEN Unchanged(gf, hp, move, FALSE, "none")
        ELSE IF ~already_made(move) THEN Unchanged(gf, hp, move, FALSE, "ValueError")
        ELSE IF ~(tower_at_from_pos = NoTower \/ Tower_height(hp, tower_at_from_pos) = 0)
        THEN Unchanged(gf, hp, move, FALSE, "RuntimeError")
        ELSE IF \/ tower_at_to_pos = NoTower
                \/ Tower_height(hp, tower_at_to_pos) < Tower_height(hp, move.from_tower)
        THEN Unchanged(gf, hp, move, FALSE, "RuntimeError")
        ELSE split_towers(gf, hp, move)

\* GameField.take_back (returns nothing: ret is always FALSE)
take_back(gf, hp, move) ==
    LET tower_at_from_pos == get_tower_at(gf, move.from_pos)
        tower_at_to_pos == get_tower_at(gf, move.to_pos)
    IN  IF is_skip_move(move) THEN Unchanged(gf, hp, move, FALSE, "none")
        ELSE IF ~already_made(move) THEN Unchanged(gf, hp, move, FALSE, "ValueError")
        ELSE IF ~(tower_at_from_pos = NoTower \/ Tower_height(hp, tower_at_from_pos) = 0)
        THEN Unchanged(gf, hp, move, FALSE, "RuntimeError")
        ELSE IF \/ tower_at_to_pos = NoTower
                \/ Tower_height(hp, tower_at_to_pos) < Tower_height(hp, move.from_tower)
        THEN Unchanged(gf, hp, move, FALSE, "RuntimeError")
        ELSE IF Tower_eq(hp, move.from_tower, tower_at_to_pos)
        THEN Unchanged(gf, hp, move, FALSE, "RuntimeError")
        ELSE split_towers(gf, hp, move)

\* ------------------------------------------------------------------------
\* Rule sets
\* ------------------------------------------------------------------------
RuleSets == {"base", "kings", "oppose", "majority", "free"}

\* mutant of basically_allows_move: the two positions may be the same
basically_allows_move_same_pos(gf, hp, from_pos, to_pos) ==
    IF from_pos = None \/ to_pos = None THEN None
    ELSE LET top_tower == get_tower_at(gf, from_pos)
             lower_tower == get_tower_at(gf, to_pos)
         IN  IF \/ top_tower = NoTower
                \/ lower_tower = NoTower
                \/ Tower_height(hp, top_tower) = 0
                \/ Tower_height(hp, lower_tower) = 0
             THEN None
             ELSE <<top_tower, lower_tower>>

\* BaseRuleSet.basically_allows_move: both towers, or None
basically_allows_move(gf, hp, from_pos, to_pos) ==
    IF from_pos = None \/ to_pos = None THEN None
    ELSE IF from_pos = to_pos THEN None
    ELSE LET top_tower == get_tower_at(gf, from_pos)
             lower_tower == get_tower_at(gf, to_pos)
         IN  IF \/ top_tower = NoTower
                \/ lower_tower = NoTower
                \/ Tower_height(hp, top_tower) = 0
                \/ Tower_height(hp, lower_tower) = 0
             THEN None
             ELSE <<top_tower, lower_tower>>

\* mutant of check_quad_neighbourhood: two steps are allowed
check_quad_neighbourhood_two_steps(from_pos, to_pos) ==
    Abs(from_pos[1] - to_pos[1]) + Abs(from_pos[2] - to_pos[2]) <= 2

\* BaseRuleSet.check_quad_neighbourhood
check_quad_neighbourhood(from_pos, to_pos) ==
    Abs(from_pos[1] - to_pos[1]) + Abs(from_pos[2] - to_pos[2]) <= 1

\* BaseRuleSet.check_player_is_owner
check_player_is_owner(hp, tower, player) == Tower_owner(hp, tower) = player

\* mutant of BaseRuleSet.allows_move: only player1 is ever allowed a move
BaseRuleSet_allows_move_player1_only(gf, hp, player, from_pos, to_pos) ==
    LET towers == basically_allows_move(gf, hp, from_pos, to_pos)
    IN  IF towers = None THEN FALSE
        ELSE IF player # gf.player1 THEN FALSE
        ELSE IF ~check_player_is_owner(hp, towers[1], player) THEN FALSE
        ELSE IF ~check_quad_neighbourhood(from_pos, to_pos) THEN FALSE
        ELSE TRUE

\* BaseRuleSet.allows_move
BaseRuleSet_allows_move(gf, hp, player, from_pos, to_pos) ==
    LET towers == basically_allows_move(gf, hp, from_pos, to_pos)
    IN  IF towers = None THEN FALSE
        ELSE IF ~check_player_is_owner(hp, towers[1], player) THEN FALSE
        ELSE IF ~check_quad_neighbourhood(from_pos, to_pos) THEN FALSE
        ELSE TRUE

\* mutant of KingsRuleSet.allows_move: the quad neighbourhood is checked
KingsRuleSet_allows_move_no_diagonal(gf, hp, player, from_pos, to_pos) ==
    LET towers == basically_allows_move(gf, hp, from_pos, to_pos)
    IN  IF towers = None THEN FALSE
        ELSE IF ~check_player_is_owner(hp, towers[1], player) THEN FALSE
        ELSE IF ~check_quad_neighbourhood(from_pos, to_pos) THEN FALSE
        ELSE TRUE

\* KingsRuleSet.allows_move
KingsRuleSet_allows_move(gf, hp, player, from_pos, to_pos) ==
    LET towers == basically_allows_move(gf, hp, from_pos, to_pos)
    IN  IF towers = None THEN FALSE
        ELSE IF ~check_player_is_owner(hp, towers[1], player) THEN FALSE
        ELSE IF Abs(from_pos[1] - to_pos[1]) > 1 \/ Abs(from_pos[2] - to_pos[2]) > 1
        THEN FALSE
        ELSE TRUE

\* mutant of MoveOnOpposingOnlyRuleSet.allows_move: the owners are not compared
MoveOnOpposingOnlyRuleSet_allows_move_on_any(gf, hp, player, from_pos, to_pos) ==
    IF ~BaseRuleSet_allows_move(gf, hp, player, from_pos, to_pos) THEN FALSE
    ELSE TRUE

\* MoveOnOpposingOnlyRuleSet.allows_move
MoveOnOpposingOnlyRuleSet_allows_move(gf, hp, player, from_pos, to_pos) ==
    IF ~BaseRuleSet_allows_move(gf, hp, player, from_pos, to_pos) THEN FALSE
    ELSE IF Tower_owner(hp, get_tower_at(gf, from_pos)) = Tower_owner(hp, get_tower_at(gf, to_pos))
    THEN FALSE
    ELSE TRUE

\* mutant of share_player: the whole tower counts for the player on top
share_player_top_only(s, player) == IF s[1] = player THEN Len(s) ELSE 0

\* number of bricks of `player` in a structure
share_player(s, player) == Cardinality({i \in 1..Len(s) : s[i] = player})

\* MajorityRuleSet.allows_move
MajorityRuleSet_allows_move(gf, hp, player, from_pos, to_pos) ==
    LET towers == basically_allows_move(gf, hp, from_pos, to_pos)
    IN  IF towers = None THEN FALSE
        ELSE IF ~check_quad_neighbourhood(from_pos, to_pos) THEN FALSE
        ELSE IF share_player(hp[towers[1]], player) * 2 < Tower_height(hp, towers[1])
        THEN FALSE
        ELSE TRUE

\* mutant of FreeRuleSet.allows_move: the player must own the tower
FreeRuleSet_allows_move_owner_only(gf, hp, player, from_pos, to_pos) ==
    IF basically_allows_move(gf, hp, from_pos, to_pos) = None THEN FALSE
    ELSE IF Tower_owner(hp, get_tower_at(gf, from_pos)) # player THEN FALSE
    ELSE IF Abs(from_pos[1] - to_pos[1]) + Abs(from_pos[2] - to_pos[2]) > 1 THEN FALSE
    ELSE TRUE

\* FreeRuleSet.allows_move
FreeRuleSet_allows_move(gf, hp, player, from_pos, to_pos) ==
    IF basically_allows_move(gf, hp, from_pos, to_pos) = None THEN FALSE
    ELSE IF Abs(from_pos[1] - to_pos[1]) + Abs(from_pos[2] - to_pos[2]) > 1 THEN FALSE
    ELSE TRUE

\* rule_set_type(game_field).allows_move: dispatch on the rule set of the node
allows_move(rules, gf, hp, player, from_pos, to_pos) ==
    CASE rules = "base" -> BaseRuleSet_allows_move(gf, hp, player, from_pos, to_pos)
      [] rules = "kings" -> KingsRuleSet_allows_move(gf, hp, player, from_pos, to_pos)
      [] rules = "oppose" -> MoveOnOpposingOnlyRuleSet_allows_move(gf, hp, player, from_pos, to_pos)
      [] rules = "majority" -> MajorityRuleSet_allows_move(gf, hp, player, from_pos, to_pos)
      [] rules = "free" -> FreeRuleSet_allows_move(gf, hp, player, from_pos, to_pos)

\* ------------------------------------------------------------------------
\* GameField.setup_field
\* ------------------------------------------------------------------------
\* position of the i-th entry (1-based) of GameField.field
PosOfIndex(gf, i) == <<(i - 1) \div gf.width, (i - 1) % gf.width>>

\* the loop "for x in range(min_height): for y in range(min_width)": specs
\* maps positions to the structures of the caller's towers
RECURSIVE setup_loop(_, _, _, _)
setup_loop(gf, hp, specs, i) ==
    IF i > gf.height * gf.width THEN [gf |-> gf, heap |-> hp, exc |-> "none"]
    ELSE LET pos == PosOfIndex(gf, i)
             r == NewRef(hp)
             s == IF pos \in DOMAIN specs
                  THEN set_tower_at(gf, Alloc(hp, r, specs[pos]), pos, r)
                  ELSE set_tower_at(gf, hp, pos, NoTower)
         IN  setup_loop(s.gf, Collect(s.heap, {s.gf.field[j] : j \in 1..Len(s.gf.field)}),
                        specs, i + 1)

\* mutant of setup_field: only the size is taken from the specs, the towers
\* are those of the constructor
setup_field_constructed(specs, min_height, min_width) ==
    LET h == SetMax({min_height} \cup {pos[1] + 1 : pos \in DOMAIN specs})
        w == SetMax({min_width} \cup {pos[2] + 1 : pos \in DOMAIN specs})
    IN  [gf |-> GameField_init(h, w, Player1, Player2).gf,
         heap |-> GameField_init(h, w, Player1, Player2).heap,
         exc |-> "none"]

\* GameField.setup_field(specs, min_height, min_width); specs holds no
\* tower of height 0 (Tower.owner raises for it)
setup_field(specs, min_height, min_width) ==
    LET h == SetMax({min_height} \cup {pos[1] + 1 : pos \in DOMAIN specs})
        w == SetMax({min_width} \cup {pos[2] + 1 : pos \in DOMAIN specs})
        players == {specs[pos][1] : pos \in DOMAIN specs}
        p1 == IF players = {} THEN Player1 ELSE CHOOSE p \in players : \A q \in players : p <= q
        p2 == IF Cardinality(players) = 2
              THEN CHOOSE p \in players : \A q \in players : q <= p
              ELSE Player2
        g == GameField_init(h, w, p1, p2)
    IN  IF min_height < 1 \/ min_width < 1 THEN [gf |-> None, heap |-> <<>>, exc |-> "ValueError"]
        ELSE IF Cardinality(players) > 2 THEN [gf |-> None, heap |-> <<>>, exc |-> "ValueError"]
        ELSE IF p1 = p2 THEN [gf |-> None, heap |-> <<>>, exc |-> "ValueError"]
        ELSE setup_loop(g.gf, g.heap, specs, 1)

\* ------------------------------------------------------------------------
\* GameNode
\* ------------------------------------------------------------------------
\* GameNode.__init__ (the field and the rule set are those of the search)
GameNode(move, max_player, skipped_before) ==
    [move |-> move, max_player |-> max_player, skipped_before |-> skipped_before]

\* GameNode.player
NodePlayer(gf, node) == IF node.max_player THEN gf.player1 ELSE gf.player2

\* kings_neighbourhood
kings_neighbourhood(pos) ==
    << <<pos[1] - 1, pos[2] - 1>>, <<pos[1] - 1, pos[2]>>, <<pos[1] - 1, pos[2] + 1>>,
       <<pos[1], pos[2] - 1>>,     <<pos[1], pos[2]>>,     <<pos[1], pos[2] + 1>>,
       <<pos[1] + 1, pos[2] - 1>>, <<pos[1] + 1, pos[2]>>, <<pos[1] + 1, pos[2] + 1>> >>

\* mutant of quad_neighbourhood: the position to the left is not generated
quad_neighbourhood_no_left(pos) ==
    << <<pos[1] + 1, pos[2]>>, <<pos[1] - 1, pos[2]>>, <<pos[1], pos[2] + 1>> >>

\* quad_neighbourhood
quad_neighbourhood(pos) ==
    << <<pos[1] + 1, pos[2]>>, <<pos[1] - 1, pos[2]>>,
       <<pos[1], pos[2] + 1>>, <<pos[1], pos[2] - 1>> >>

\* gamefabric.fabricate: the neighbourhood that goes with a rule set
neighbourhood(rules, pos) ==
    IF rules = "kings" THEN kings_neighbourhood(pos) ELSE quad_neighbourhood(pos)

\* the positions "for from_pos in list(self.game_field.field)" visits: every
\* position of the board, row by row
FieldPositions(gf) == [i \in 1..(gf.height * gf.width) |-> PosOfIndex(gf, i)]

\* mutant of GameNode.value: every node is worth 0
node_value_zero(gf, hp) == 0

\* GameNode.value
node_value(gf, hp) == value(gf, hp)

\* mutant of GameNode.make_move: the move is not made, the field stays as it is
node_make_move_nothing(gf, hp, node) == Unchanged(gf, hp, node.move, TRUE, "none")

\* GameNode.make_move
node_make_move(gf, hp, node) == make_move(gf, hp, None, None, node.move)

\* GameNode.take_back_move
node_take_back_move(gf, hp, node) == take_back(gf, hp, node.move)

\* GameNode.heuristic_value, times two: h / 2 and w / 2 are float divisions,
\* and the value is only ever compared with other heuristic values
heuristic_value(gf, hp, node) ==
    IF node.move # None /\ ~is_skip_move(node.move)
    THEN LET x == node.move.from_pos[1]
             y == node.move.from_pos[2]
             h == gf.height
             w == gf.width
             bias_x == 2 * h - Abs(2 * x - h)
             bias_y == 2 * w - Abs(2 * y - w)
         IN  IF node.max_player
             THEN 2 * value(gf, hp) - bias_x - bias_y
             ELSE 2 * value(gf, hp) + bias_x + bias_y
    ELSE 2 * value(gf, hp)

\* mutant of candidate_taken_back: the candidate's move is not taken back
\* before the child is yielded
candidate_left_made(acc, gn, m, heur_val, t) ==
    [gf |-> m.gf, heap |-> m.heap,
     out |-> Append(acc.out, [node |-> [gn EXCEPT !.move = m.move], heur_val |-> heur_val]),
     count |-> acc.count + 1,
     exc |-> "none",
     all_made |-> acc.all_made /\ m.ret]

\* one candidate of GameNode._children, after take_back_move: yield the
\* child with its heuristic value
candidate_taken_back(acc, gn, m, heur_val, t) ==
    IF t.exc # "none"
    THEN [acc EXCEPT !.gf = m.gf, !.heap = m.heap, !.exc = t.exc,
                     !.all_made = acc.all_made /\ m.ret]
    ELSE [gf |-> t.gf, heap |-> t.heap,
          out |-> Append(acc.out, [node |-> [gn EXCEPT !.move = t.move], heur_val |-> heur_val]),
          count |-> acc.count + 1,
          exc |-> "none",
          all_made |-> acc.all_made /\ m.ret]

\* one candidate of GameNode._children, after gn.make_move(): the heuristic
\* value on the field with the move made, then gn.take_back_move()
candidate_made(acc, gn, m) ==
    IF m.exc # "none" THEN [acc EXCEPT !.exc = m.exc]
    ELSE candidate_taken_back(acc, gn, m,
             heuristic_value(m.gf, m.heap, [gn EXCEPT !.move = m.move]),
             node_take_back_move(m.gf, m.heap, [gn EXCEPT !.move = m.move]))

\* mutant of try_candidate: the child has the player of its parent to move
try_candidate_same_player(rules, node, acc, from_pos, to_pos) ==
    IF ~allows_move(rules, acc.gf, acc.heap, NodePlayer(acc.gf, node), from_pos, to_pos)
    THEN acc
    ELSE candidate_made(acc, GameNode(NewMove(from_pos, to_pos), node.max_player, FALSE),
             node_make_move(acc.gf, acc.heap,
                 GameNode(NewMove(from_pos, to_pos), node.max_player, FALSE)))

\* one candidate of GameNode._children: acc is the generator's state (the
\* field, the heap, the children yielded so far, count), with the exception
\* that ended it and whether every make_move returned True
try_candidate(rules, node, acc, from_pos, to_pos) ==
    IF ~allows_move(rules, acc.gf, acc.heap, NodePlayer(acc.gf, node), from_pos, to_pos)
    THEN acc
    ELSE candidate_made(acc, GameNode(NewMove(from_pos, to_pos), ~node.max_player, FALSE),
             node_make_move(acc.gf, acc.heap,
                 GameNode(NewMove(from_pos, to_pos), ~node.max_player, FALSE)))

\* the inner loop of GameNode._children over the neighbourhood of from_pos
RECURSIVE to_loop(_, _, _, _, _)
to_loop(rules, node, acc, from_pos, j) ==
    IF acc.exc # "none" \/ j > Len(neighbourhood(rules, from_pos)) THEN acc
    ELSE to_loop(rules, node,
                 try_candidate(rules, node, acc, from_pos, neighbourhood(rules, from_pos)[j]),
                 from_pos, j + 1)

\* the outer loop of GameNode._children over the positions of the field
RECURSIVE from_loop(_, _, _, _)
from_loop(rules, node, acc, i) ==
    IF acc.exc # "none" \/ i > Len(FieldPositions(acc.gf)) THEN acc
    ELSE from_loop(rules, node,
                   to_loop(rules, node, acc, FieldPositions(acc.gf)[i], 1),
                   i + 1)

\* mutant of skip_child: a node reached by a skip may skip again
skip_child_again(node, acc) ==
    IF acc.exc = "none" /\ acc.count = 0
    THEN [acc EXCEPT !.out = Append(acc.out,
             [node |-> GameNode(NewMove(SkipPos, SkipPos), ~node.max_player, TRUE),
              heur_val |-> heuristic_value(acc.gf, acc.heap,
                               GameNode(NewMove(SkipPos, SkipPos), ~node.max_player, TRUE))])]
    ELSE acc

\* the end of GameNode._children: the skip child, if no move was allowed
\* and the node was not itself reached by a skip
skip_child(node, acc) ==
    IF acc.exc = "none" /\ acc.count = 0 /\ ~node.skipped_before
    THEN [acc EXCEPT !.out = Append(acc.out,
             [node |-> GameNode(NewMove(SkipPos, SkipPos), ~node.max_player, TRUE),
              heur_val |-> heuristic_value(acc.gf, acc.heap,
                               GameNode(NewMove(SkipPos, SkipPos), ~node.max_player, TRUE))])]
    ELSE acc

\* GameNode._children, run to its end: the (child, heuristic) pairs in the
\* order they are yielded
_children(rules, gf, hp, node) ==
    skip_child(node,
        from_loop(rules, node,
                  [gf |-> gf, heap |-> hp, out |-> <<>>, count |-> 0,
                   exc |-> "none", all_made |-> TRUE],
                  1))

\* sorted(..., key=heur_val, reverse=desc) is stable: e goes behind every
\* element that does not sort strictly after it
sorted_insert(s, e, desc) ==
    LET later == {k \in 1..Len(s) :
                    IF desc THEN s[k].heur_val < e.heur_val ELSE s[k].heur_val > e.heur_val}
        k == CHOOSE a \in later : \A b \in later : a <= b
    IN  IF later = {} THEN Append(s, e)
        ELSE SubSeq(s, 1, k - 1) \o <<e>> \o SubSeq(s, k, Len(s))

RECURSIVE sorted(_, _, _)
sorted(s, n, desc) ==
    IF n = 0 THEN <<>> ELSE sorted_insert(sorted(s, n - 1, desc), s[n], desc)

\* map(lambda x: x[0], ...): the nodes of the (child, heuristic) pairs
first_of_pairs(acc, srt) == [acc EXCEPT !.out = [k \in 1..Len(srt) |-> srt[k].node]]

\* the sorting of GameNode.children
sort_children(node, acc) ==
    first_of_pairs(acc, sorted(acc.out, Len(acc.out), node.max_player))

\* GameNode.children: the children, high to low heuristic for the maximising
\* player and low to high for the other
children(rules, gf, hp, node) == sort_children(node, _children(rules, gf, hp, node))

\* ------------------------------------------------------------------------
\* State
\* ------------------------------------------------------------------------
VARIABLES
    gf,        \* the GameField: height, width, player1, player2, field
    heap,      \* the Tower objects: reference -> structure
    rules,     \* the rule set of the search
    stack,     \* the activations of alpha_beta_search, the root first
    counter,   \* CountCallback.counter
    err,       \* the exception that ended the search, or "none"
    all_made,  \* history: every make_move of the search returned True
    pruned,    \* history: a cutoff has left a sibling unsearched
    moves,     \* the made Move objects of the caller of the GameField, each
               \* with the history of its making; an unmade Move is no more
               \* than its two positions, chosen where it is used
    calls,     \* the number of calls the caller of the GameField has made
    last       \* history: the last call on the GameField and its result

vars == <<gf, heap, rules, stack, counter, err, all_made, pruned, moves, calls, last>>

\* the structure at every position, in the order of GameField.field
Structures(g, hp) == [i \in 1..Len(g.field) |-> hp[g.field[i]]]

FieldRefs(g) == {g.field[i] : i \in 1..Len(g.field)}

\* ------------------------------------------------------------------------
\* alpha_beta_search
\* ------------------------------------------------------------------------
\* an entry of a move list: the positions of a Move, or None
MoveEntry(move) == IF move = None THEN None ELSE <<move.from_pos, move.to_pos>>

\* mutant of fold_value: "value = _value", the max / min forgotten
fold_value_last(maximising_player, val, v) == v

\* value = max(value, _value) / value = min(value, _value)
fold_value(maximising_player, val, v) ==
    IF maximising_player
    THEN (IF v > val THEN v ELSE val)
    ELSE (IF v < val THEN v ELSE val)

\* "if value > alpha" / "if value < beta"
improves(maximising_player, val, alpha, beta) ==
    IF maximising_player THEN val > alpha ELSE val < beta

\* mutant of cutoff: the loop is left one short of alpha >= beta
cutoff_early(alpha, beta) == alpha + 1 >= beta

\* "if alpha >= beta: break"
cutoff(alpha, beta) == alpha >= beta

\* a new activation of alpha_beta_search
Frame(node, depth, alpha, beta, maximising_player, trace_moves, entry) ==
    [node |-> node, depth |-> depth, alpha |-> alpha, beta |-> beta,
     maximising_player |-> maximising_player, trace_moves |-> trace_moves,
     pc |-> "enter", children |-> <<>>, idx |-> 1, num_children |-> 0,
     value |-> 0, best_move_list |-> <<>>, ret |-> None,
     entry |-> entry]

Top == stack[Len(stack)]

SetTop(f) == [stack EXCEPT ![Len(stack)] = f]

\* what a return statement hands back
Returned(trace_moves, val, move_list) ==
    IF trace_moves THEN [value |-> val, move_list |-> move_list] ELSE [value |-> val]

\* the references the activations hold
StackRefs(st) ==
    UNION {{st[i].children[k].move.from_tower : k \in 1..Len(st[i].children)}
           \cup (IF st[i].node.move = None THEN {} ELSE {st[i].node.move.from_tower})
           : i \in 1..Len(st)}

CollectSearch(hp, g, st) == Collect(hp, FieldRefs(g) \cup StackRefs(st))

FieldSide == UNCHANGED <<moves, calls, last>>

\* mutant of ReturnAtDepth0: the callback is not called when depth is 0
ReturnAtDepth0_uncounted ==
    /\ Top.depth = 0
    /\ counter' = counter
    /\ stack' = SetTop([Top EXCEPT
           !.pc = "done",
           !.ret = Returned(Top.trace_moves, node_value(gf, heap),
                            <<MoveEntry(Top.node.move)>>)])
    /\ UNCHANGED <<gf, heap, err, all_made>>

\* the callback, then "if depth == 0": return the value of the node
ReturnAtDepth0 ==
    /\ Top.depth = 0
    /\ counter' = counter + 1
    /\ stack' = SetTop([Top EXCEPT
           !.pc = "done",
           !.ret = Returned(Top.trace_moves, node_value(gf, heap),
                            <<MoveEntry(Top.node.move)>>)])
    /\ UNCHANGED <<gf, heap, err, all_made>>

\* the callback, then the start of the loop: c is what node.children() did
Expand(c) ==
    /\ Top.depth # 0
    /\ counter' = counter + 1
    /\ gf' = c.gf
    /\ err' = c.exc
    /\ all_made' = (all_made /\ c.all_made)
    /\ stack' = IF c.exc = "none"
                THEN SetTop([Top EXCEPT
                         !.pc = "loop",
                         !.value = IF Top.maximising_player THEN -Inf ELSE Inf,
                         !.children = c.out])
                ELSE stack
    /\ heap' = CollectSearch(c.heap, c.gf, stack')

\* entry of alpha_beta_search up to the loop: the callback, the depth-0
\* return, and the evaluation of node.children()
Call ==
    /\ err = "none"
    /\ stack # <<>>
    /\ Top.pc = "enter"
    /\ \/ ReturnAtDepth0
       \/ Expand(children(rules, gf, heap, Top.node))
    /\ UNCHANGED <<rules, pruned>>
    /\ FieldSide

\* m is what child.make_move() did: the recursive call for the child
Recurse(child, m) ==
    /\ gf' = m.gf
    /\ err' = m.exc
    /\ all_made' = (all_made /\ (m.exc # "none" \/ m.ret))
    /\ stack' = IF m.exc = "none"
                THEN Append(SetTop([Top EXCEPT !.pc = "wait",
                                               !.num_children = Top.num_children + 1,
                                               !.children[Top.idx] = [child EXCEPT !.move = m.move]]),
                            Frame([child EXCEPT !.move = m.move], Top.depth - 1,
                                  Top.alpha, Top.beta, ~Top.maximising_player, TRUE,
                                  Structures(m.gf, m.heap)))
                ELSE stack
    /\ heap' = CollectSearch(m.heap, m.gf, stack')

\* one turn of the loop up to the recursive call: make the child's move and
\* call alpha_beta_search for it
Descend ==
    /\ err = "none"
    /\ stack # <<>>
    /\ Top.pc = "loop"
    /\ Top.idx <= Len(Top.children)
    /\ Recurse(Top.children[Top.idx], node_make_move(gf, heap, Top.children[Top.idx]))
    /\ UNCHANGED <<rules, counter, pruned>>
    /\ FieldSide

\* the activation of the caller after one turn of its loop: val is the
\* folded value, t what child.take_back_move() did
AfterChild(caller, child, ret, val, better, t) ==
    [caller EXCEPT
        !.value = val,
        !.children[caller.idx] = [child EXCEPT !.move = t.move],
        !.alpha = IF better /\ caller.maximising_player THEN val ELSE caller.alpha,
        !.beta = IF better /\ ~caller.maximising_player THEN val ELSE caller.beta,
        !.best_move_list = IF better THEN ret.move_list ELSE caller.best_move_list,
        !.idx = caller.idx + 1]

\* mutant of PruneOrContinue: no "break", the loop goes on to the next child
PruneOrContinue_no_break(f) == [f EXCEPT !.pc = "loop"]

\* "if alpha >= beta: break", or on to the next child
PruneOrContinue(f) ==
    [f EXCEPT !.pc = IF cutoff(f.alpha, f.beta) THEN "after" ELSE "loop"]

\* the return of the recursive call into the caller's loop
Resume(caller, child, ret, val, t) ==
    /\ gf' = t.gf
    /\ err' = t.exc
    /\ stack' = IF t.exc = "none"
                THEN [SubSeq(stack, 1, Len(stack) - 1) EXCEPT ![Len(stack) - 1] =
                         PruneOrContinue(AfterChild(caller, child, ret, val,
                             improves(caller.maximising_player, val, caller.alpha, caller.beta),
                             t))]
                ELSE stack
    /\ pruned' = (pruned \/ (/\ t.exc = "none"
                              /\ stack'[Len(stack')].pc = "after"
                              /\ stack'[Len(stack')].idx <= Len(stack'[Len(stack')].children)))
    /\ heap' = CollectSearch(t.heap, t.gf, stack')

\* the rest of the turn, once the recursive call has returned: fold the
\* value, take the move back, update alpha or beta, prune
Ascend ==
    /\ err = "none"
    /\ Len(stack) > 1
    /\ Top.pc = "done"
    /\ Resume(stack[Len(stack) - 1],
              stack[Len(stack) - 1].children[stack[Len(stack) - 1].idx],
              Top.ret,
              fold_value(stack[Len(stack) - 1].maximising_player,
                         stack[Len(stack) - 1].value, Top.ret.value),
              node_take_back_move(gf, heap,
                  stack[Len(stack) - 1].children[stack[Len(stack) - 1].idx]))
    /\ UNCHANGED <<rules, counter, all_made>>
    /\ FieldSide

\* mutant of Return: the "num_children == 0" branch forgotten, the folded
\* value returned even if there was no child
Return_folded_only(best_move_list) ==
    stack' = SetTop([Top EXCEPT
        !.pc = "done",
        !.best_move_list = best_move_list,
        !.ret = Returned(Top.trace_moves, Top.value, best_move_list)])

\* the return after the loop: the list with the node's own move in front,
\* and the folded value, or the node's value if there was no child
Return(best_move_list) ==
    stack' = SetTop([Top EXCEPT
        !.pc = "done",
        !.best_move_list = best_move_list,
        !.ret = Returned(Top.trace_moves,
                         IF Top.num_children = 0 THEN node_value(gf, heap) ELSE Top.value,
                         best_move_list)])

\* after the loop: put the node's own move in front of the best list and
\* return
Leave ==
    /\ err = "none"
    /\ stack # <<>>
    /\ \/ Top.pc = "after"
       \/ Top.pc = "loop" /\ Top.idx > Len(Top.children)
    /\ Return(IF Top.node.move # None
              THEN <<MoveEntry(Top.node.move)>> \o Top.best_move_list
              ELSE Top.best_move_list)
    /\ UNCHANGED <<gf, heap, rules, counter, err, all_made, pruned>>
    /\ FieldSide

NextSearch == Call \/ Descend \/ Ascend \/ Leave

\* ------------------------------------------------------------------------
\* Start of a search: gamefabric.fabricate on a constructed field or on a
\* field set up from specs, any rule set, either player, a depth
\* ------------------------------------------------------------------------
Dims == {d \in (1..MaxHeight) \X (1..MaxWidth) : d[1] * d[2] <= MaxCells}

BoardPositions(h, w) == (0..(h - 1)) \X (0..(w - 1))

\* the towers a spec may place: one brick of either player
SpecTowers == {<<Player1>>, <<Player2>>}

\* the specs on a board of h x w: towers at some of its positions
SpecsOn(h, w) ==
    UNION {[P -> SpecTowers] : P \in SUBSET BoardPositions(h, w)}

\* the fields a search starts on
SearchFields ==
    {[gf |-> g.gf, heap |-> g.heap] :
        g \in {GameField_init(d[1], d[2], Player1, Player2) : d \in Dims}}
    \cup
    {[gf |-> g.gf, heap |-> g.heap] :
        g \in {r \in {setup_field(sp[2], sp[1][1], sp[1][2]) :
                        sp \in UNION {{<<d, specs>> : specs \in SpecsOn(d[1], d[2])} : d \in Dims}} :
                  r.exc = "none"}}

\* the depths searched: the small ones, and main's 2 * height * width + 1
Depths(g) == (0..MaxDepth) \cup {2 * g.height * g.width + 1}

NoCall == [op |-> "none"]

InitSearch ==
    \E f \in SearchFields, r \in RuleSets, max_player \in BOOLEAN, trace_moves \in BOOLEAN :
      \E depth \in Depths(f.gf) :
        /\ gf = f.gf
        /\ heap = f.heap
        /\ rules = r
        /\ stack = <<Frame(GameNode(None, max_player, FALSE), depth, -Inf, Inf,
                           max_player, trace_moves, Structures(f.gf, f.heap))>>
        /\ counter = 0
        /\ err = "none"
        /\ all_made = TRUE
        /\ pruned = FALSE
        /\ moves = <<>>
        /\ calls = 0
        /\ last = NoCall

SpecSearch == InitSearch /\ [][NextSearch]_vars

\* ------------------------------------------------------------------------
\* A caller of the GameField: set_tower_at, make_move with a new or a made
\* Move or with explicit positions, take_back of a made or an unmade Move
\* ------------------------------------------------------------------------
\* the boards of the caller
FieldDims == {d \in (1..MaxHeight) \X (1..MaxWidth) : d[1] * d[2] = MaxFieldCells}

\* the positions the caller passes: those of the board and the position of a
\* skip move, which is off the board
PosInputs(g) == BoardPositions(g.height, g.width) \cup {SkipPos}

\* the towers the caller passes to set_tower_at: None, or a new Tower
TowerInputs == {None, <<Player1>>, <<Player2>>}

Bricks(g, hp) == LET n == Len(g.field)
                     RECURSIVE sum(_)
                     sum(i) == IF i = 0 THEN 0 ELSE Len(hp[g.field[i]]) + sum(i - 1)
                 IN  sum(n)

\* the references in the order the field and the made moves hold them
RefOrder(g, ms) == g.field \o [i \in 1..Len(ms) |-> ms[i].move.from_tower]

\* object identity carries no names: a reference is renamed to the first
\* place that holds it, and unreferenced objects disappear
FirstAt(seq, r) == CHOOSE i \in 1..Len(seq) : seq[i] = r /\ \A j \in 1..(i - 1) : seq[j] # r

Renamed(seq, g, hp, ms) ==
    [gf |-> [g EXCEPT !.field = [i \in 1..Len(g.field) |-> FirstAt(seq, g.field[i])]],
     heap |-> [n \in {FirstAt(seq, seq[j]) : j \in 1..Len(seq)} |-> hp[seq[n]]],
     moves |-> [i \in 1..Len(ms) |->
                  [ms[i] EXCEPT !.move.from_tower = FirstAt(seq, ms[i].move.from_tower)]]]

SearchSide == UNCHANGED <<rules, stack, counter, err, all_made, pruned>>

\* the caller makes one more call
Calling ==
    /\ stack = <<>>
    /\ calls < MaxCalls
    /\ calls' = calls + 1

\* the state after a call: c holds the field, the heap and the made moves
\* the call left. When the call was not the undoing of the latest made move
\* and changed the field (disturbed), the made moves forget the fields they
\* were made on.
Becomes(c, disturbed) ==
    /\ gf' = c.gf
    /\ heap' = c.heap
    /\ moves' = IF disturbed
                THEN [i \in 1..Len(c.moves) |-> [c.moves[i] EXCEPT !.made_on = None]]
                ELSE c.moves

After(g, hp, ms, disturbed) == Becomes(Renamed(RefOrder(g, ms), g, hp, ms), disturbed)

RemoveAt(seq, i) == SubSeq(seq, 1, i - 1) \o SubSeq(seq, i + 1, Len(seq))

\* r is what set_tower_at(pos, tower) did
SetTowerAtDone(pos, tower, r) ==
    /\ After(r.gf, r.heap, moves, r.ret)
    /\ last' = [op |-> "set_tower_at", pos |-> pos, tower |-> tower, ret |-> r.ret,
                exc |-> "none"]

\* game_field.set_tower_at(pos, None) or game_field.set_tower_at(pos, Tower(structure=tower))
SetTowerAt(pos, tower) ==
    /\ Calling
    /\ Bricks(gf, heap) + Len(tower) <= MaxBricks
    /\ SetTowerAtDone(pos, tower,
           IF tower = None
           THEN set_tower_at(gf, heap, pos, NoTower)
           ELSE set_tower_at(gf, Alloc(heap, NewRef(heap), tower), pos, NewRef(heap)))
    /\ SearchSide

\* r is what make_move(move=Move(from_pos, to_pos)) did: a move that is made
\* joins the made moves, with the structure its mover had and the field it
\* was made on
MakeMoveDone(from_pos, to_pos, r) ==
    /\ After(r.gf, r.heap,
             IF already_made(r.move)
             THEN Append(moves, [move |-> r.move,
                                 mover |-> heap[get_tower_at(gf, from_pos)],
                                 made_on |-> Structures(gf, heap)])
             ELSE moves,
             FALSE)
    /\ last' = [op |-> "make_move", from_pos |-> from_pos, to_pos |-> to_pos,
                with_move |-> TRUE, made_before |-> FALSE,
                made_after |-> already_made(r.move), index |-> Len(moves) + 1,
                ret |-> r.ret, exc |-> r.exc]

\* move = Move(from_pos, to_pos); game_field.make_move(move=move)
MakeMove(from_pos, to_pos) ==
    /\ Calling
    /\ Len(moves) < MaxMoves
    /\ MakeMoveDone(from_pos, to_pos, make_move(gf, heap, None, None, NewMove(from_pos, to_pos)))
    /\ SearchSide

\* r is what make_move(move=moves[i].move) did, the move being made
MakeMoveAgainDone(i, r) ==
    /\ After(r.gf, r.heap, [moves EXCEPT ![i].move = r.move], r.exc = "none")
    /\ last' = [op |-> "make_move", from_pos |-> moves[i].move.from_pos,
                to_pos |-> moves[i].move.to_pos,
                with_move |-> TRUE, made_before |-> TRUE,
                made_after |-> already_made(r.move), index |-> i,
                ret |-> r.ret, exc |-> r.exc]

\* game_field.make_move(move=move) with a move that is made
MakeMoveAgain(i) ==
    /\ Calling
    /\ i \in 1..Len(moves)
    /\ MakeMoveAgainDone(i, make_move(gf, heap, None, None, moves[i].move))
    /\ SearchSide

\* r is what make_move(from_pos, to_pos) did
MakeMovePosDone(from_pos, to_pos, r) ==
    /\ After(r.gf, r.heap, moves, r.exc = "none" /\ r.ret)
    /\ last' = [op |-> "make_move", from_pos |-> from_pos, to_pos |-> to_pos,
                with_move |-> FALSE, made_before |-> FALSE, made_after |-> FALSE,
                index |-> 0, ret |-> r.ret, exc |-> r.exc]

\* game_field.make_move(from_pos, to_pos), either position possibly None
MakeMovePos(from_pos, to_pos) ==
    /\ Calling
    /\ MakeMovePosDone(from_pos, to_pos, make_move(gf, heap, from_pos, to_pos, None))
    /\ SearchSide

\* the latest made move, made by the call just before
JustMade(i) ==
    /\ i = Len(moves)
    /\ last.op = "make_move"
    /\ last.with_move
    /\ ~last.made_before
    /\ last.made_after

\* r is what take_back(moves[i].move) did: a move that is unmade leaves the
\* made moves
TakeBackDone(i, r) ==
    /\ After(r.gf, r.heap,
             IF already_made(r.move) THEN [moves EXCEPT ![i].move = r.move]
             ELSE RemoveAt(moves, i),
             r.exc = "none" /\ ~(i = Len(moves) /\ moves[i].made_on # None))
    /\ last' = [op |-> "take_back", from_pos |-> moves[i].move.from_pos,
                to_pos |-> moves[i].move.to_pos,
                made_before |-> TRUE,
                made_after |-> already_made(r.move), index |-> i,
                in_order |-> (i = Len(moves) /\ moves[i].made_on # None),
                immediately |-> JustMade(i),
                exc |-> r.exc]

\* game_field.take_back(move) with a move that is made
TakeBack(i) ==
    /\ Calling
    /\ i \in 1..Len(moves)
    /\ TakeBackDone(i, take_back(gf, heap, moves[i].move))
    /\ SearchSide

\* r is what take_back(Move(from_pos, to_pos)) did
TakeBackUnmadeDone(from_pos, to_pos, r) ==
    /\ After(r.gf, r.heap, moves, r.exc = "none" /\ ~is_skip_move(r.move))
    /\ last' = [op |-> "take_back", from_pos |-> from_pos, to_pos |-> to_pos,
                made_before |-> FALSE,
                made_after |-> already_made(r.move), index |-> 0,
                in_order |-> FALSE, immediately |-> FALSE,
                exc |-> r.exc]

\* game_field.take_back(Move(from_pos, to_pos)): a move that is not made
TakeBackUnmade(from_pos, to_pos) ==
    /\ Calling
    /\ TakeBackUnmadeDone(from_pos, to_pos, take_back(gf, heap, NewMove(from_pos, to_pos)))
    /\ SearchSide

NextField ==
    \/ \E pos \in PosInputs(gf), tower \in TowerInputs : SetTowerAt(pos, tower)
    \/ \E from_pos \in PosInputs(gf), to_pos \in PosInputs(gf) : MakeMove(from_pos, to_pos)
    \/ \E i \in 1..MaxMoves : MakeMoveAgain(i)
    \/ \E from_pos \in PosInputs(gf) \cup {None}, to_pos \in PosInputs(gf) \cup {None} :
          MakeMovePos(from_pos, to_pos)
    \/ \E i \in 1..MaxMoves : TakeBack(i)
    \/ \E from_pos \in PosInputs(gf), to_pos \in PosInputs(gf) : TakeBackUnmade(from_pos, to_pos)

\* the caller starts on a newly constructed field
InitField ==
    \E d \in FieldDims :
        /\ gf = GameField_init(d[1], d[2], Player1, Player2).gf
        /\ heap = GameField_init(d[1], d[2], Player1, Player2).heap
        /\ moves = <<>>
        /\ calls = 0
        /\ last = NoCall
        /\ rules = "base"
        /\ stack = <<>>
        /\ counter = 0
        /\ err = "none"
        /\ all_made = TRUE
        /\ pruned = FALSE

SpecField == InitField /\ [][NextField]_vars

\* ------------------------------------------------------------------------
\* Properties of the search (checked under SpecSearch)
\* ------------------------------------------------------------------------
SetMin(S) == CHOOSE m \in S : \A n \in S : m <= n

\* the field of the search with the structures `structs` at its positions
FieldWith(structs) ==
    [gf |-> [gf EXCEPT !.field = [i \in 1..Len(structs) |-> i]], heap |-> structs]

\* plain minimax of the given depth over the children of GameNode._children:
\* no window, no pruning, no ordering
RECURSIVE Minimax(_, _, _, _, _)
MinimaxAfter(m, child, depth, maximising) ==
    Minimax(m.gf, m.heap, [child EXCEPT !.move = m.move], depth, maximising)

MinimaxOver(g, hp, depth, maximising, ch) ==
    IF ch = <<>> THEN value(g, hp)
    ELSE IF maximising
    THEN SetMax({MinimaxAfter(node_make_move(g, hp, ch[k].node), ch[k].node,
                              depth - 1, ~maximising) : k \in 1..Len(ch)})
    ELSE SetMin({MinimaxAfter(node_make_move(g, hp, ch[k].node), ch[k].node,
                              depth - 1, ~maximising) : k \in 1..Len(ch)})

Minimax(g, hp, node, depth, maximising) ==
    IF depth = 0 THEN value(g, hp)
    ELSE MinimaxOver(g, hp, depth, maximising, _children(rules, g, hp, node).out)

MinimaxOfRoot(f, root) ==
    Minimax(f.gf, f.heap, root.node, root.depth, root.maximising_player)

RootDone == err = "none" /\ Len(stack) = 1 /\ stack[1].pc = "done"

\* C1: a root call with the full window returns the value plain depth-d
\* minimax has on the start field, for every rule set, start field, starting
\* player and depth
C1_AlphaBetaEqualsMinimax ==
    RootDone => stack[1].ret.value = MinimaxOfRoot(FieldWith(stack[1].entry), stack[1])

\* C1 witness: a finished search of depth >= 2 in which a cutoff pruned a
\* sibling and whose value differs from the value of the start field
C1_Witness ==
    /\ RootDone
    /\ stack[1].depth >= 2
    /\ pruned
    /\ stack[1].ret.value # value(gf, heap)
    /\ stack[1].ret.value = MinimaxOfRoot(FieldWith(stack[1].entry), stack[1])

\* the structures after a move from entry: the mover on top of the target,
\* the source empty; a skip changes nothing
StructuresAfter(g, structs, move) ==
    IF is_skip_move(move) THEN structs
    ELSE [i \in 1..Len(structs) |->
            IF i = FieldIndex(g, move.to_pos)
            THEN structs[FieldIndex(g, move.from_pos)] \o structs[i]
            ELSE IF i = FieldIndex(g, move.from_pos) THEN <<>>
            ELSE structs[i]]

AllUnmade(f) == \A k \in 1..Len(f.children) : ~already_made(f.children[k].move)

\* C2: an activation that is in its loop or returns finds the field as it
\* was at its entry, with all its children's moves unmade; an activation
\* waiting for a recursive call has made exactly the move of the child
\* searched, and that call was entered on the field with just this move
\* added: moves are made and taken back in LIFO order
C2_FieldRestoredLifo ==
    err = "none" =>
      /\ Top.pc \in {"loop", "after", "done"} =>
            /\ Structures(gf, heap) = Top.entry
            /\ AllUnmade(Top)
      /\ \A i \in 1..(Len(stack) - 1) :
            /\ stack[i].pc = "wait"
            /\ \A k \in 1..Len(stack[i].children) :
                  already_made(stack[i].children[k].move)
                      <=> (k = stack[i].idx /\ ~is_skip_move(stack[i].children[k].move))
            /\ stack[i + 1].node = stack[i].children[stack[i].idx]
            /\ stack[i + 1].entry =
                  StructuresAfter(gf, stack[i].entry, stack[i].children[stack[i].idx].move)

\* C2 witness: an inner activation returns after a cutoff, two real moves
\* deep, and the field is the one it was entered on
C2_Witness ==
    /\ err = "none"
    /\ Len(stack) >= 3
    /\ Top.pc = "done"
    /\ Top.num_children > 0
    /\ Top.idx <= Len(Top.children)
    /\ ~is_skip_move(Top.node.move)
    /\ ~is_skip_move(stack[2].node.move)
    /\ Structures(gf, heap) = Top.entry
    /\ Top.entry # stack[1].entry

\* C3: no make_move and no take_back of a search raises, and every
\* make_move returns True
C3_NoPreconditionViolation == err = "none" /\ all_made

\* C3 witness: a finished search that visited more than three nodes and
\* made real moves
C3_Witness ==
    /\ RootDone
    /\ counter > 3
    /\ stack[1].num_children >= 2
    /\ ~is_skip_move(stack[1].children[1].move)
    /\ all_made

\* ------------------------------------------------------------------------
\* Properties of make_move and take_back. A step of the caller is one call:
\* the unprimed variables are the state before the call, the primed ones the
\* state after it, and last' names the call and its result.
\* ------------------------------------------------------------------------
FieldUnchanged == Structures(gf', heap') = Structures(gf, heap)

\* the call was given the skip move
SkipCall == last'.from_pos = SkipPos /\ last'.to_pos = SkipPos

\* make_move(move=move) with a move that is not made and is no skip move,
\* or make_move(from_pos, to_pos) with both positions
MakeUnmadeCall ==
    /\ last'.op = "make_move"
    /\ ~last'.made_before
    /\ ~(last'.with_move /\ SkipCall)
    /\ last'.from_pos # None
    /\ last'.to_pos # None

\* take_back(move) with a move that is made
TakeBackMadeCall == last'.op = "take_back" /\ last'.made_before

\* the structure of the tower at pos before the call, None off the board
Before(pos) == IF InRange(gf, pos) THEN heap[get_tower_at(gf, pos)] ELSE None

\* the structure captured in the i-th made move
Captured(hp, ms, i) == hp[ms[i].move.from_tower]

\* C4: a take_back that follows immediately on the successful make_move of
\* the same, formerly unmade, Move returns normally, leaves the Move unmade
\* and every position with the structure it had before the make_move
C4_RoundTrip ==
    [][(last'.op = "take_back" /\ last'.immediately) =>
          /\ last'.exc = "none"
          /\ ~last'.made_after
          /\ Structures(gf', heap') = moves[Len(moves)].made_on]_vars

\* C5: the tower captured in a made Move keeps the structure the mover had
\* just before that move, whatever is called afterwards; and taking back the
\* latest of the moves that were made one after the other (with only their
\* own undoing in between) returns normally and restores the field that move
\* was made on, so undoing the whole chain in reverse order restores the
\* field before its first move
C5_CapturedCopyAndLifoUndo ==
    [][/\ \A i \in 1..Len(moves') : Captured(heap', moves', i) = moves'[i].mover
       /\ (TakeBackMadeCall /\ last'.in_order) =>
             /\ last'.exc = "none"
             /\ ~last'.made_after
             /\ Structures(gf', heap') = moves[Len(moves)].made_on]_vars

\* C6: a make_move of a non-skip move that returns True leaves the mover's
\* former structure followed by the target's former structure at to_pos, a
\* tower of height 0 at from_pos and every other position as it was; a Move
\* that was passed is made and holds the mover's former structure
C6_MakeMoveEffects ==
    [][(MakeUnmadeCall /\ last'.exc = "none" /\ last'.ret) =>
          /\ InRange(gf, last'.from_pos) /\ InRange(gf, last'.to_pos)
          /\ Structures(gf', heap') =
                StructuresAfter(gf, Structures(gf, heap),
                                NewMove(last'.from_pos, last'.to_pos))
          /\ Tower_height(heap', get_tower_at(gf', last'.from_pos)) = 0
          /\ last'.with_move =>
                /\ last'.made_after
                /\ moves'[last'.index].move.from_pos = last'.from_pos
                /\ moves'[last'.index].move.to_pos = last'.to_pos
                /\ Captured(heap', moves', last'.index) = Before(last'.from_pos)]_vars

\* C6 witness: a Move whose mover was two bricks high has been made, next
\* to an earlier made Move
C6_Witness ==
    /\ last.op = "make_move"
    /\ last.with_move /\ last.made_after /\ ~last.made_before
    /\ last.ret /\ last.exc = "none"
    /\ last.index = 2
    /\ Len(Captured(heap, moves, 2)) = 2
    /\ Tower_height(heap, get_tower_at(gf, last.to_pos)) = 3
    /\ Tower_height(heap, get_tower_at(gf, last.from_pos)) = 0

\* C7: a make_move of a non-skip, unmade move whose positions are equal, or
\* one of them off the board, or one of them holding a tower of height 0,
\* returns False and leaves the field and the Move unchanged
C7_MakeMoveRefuses ==
    [][(/\ MakeUnmadeCall
        /\ \/ last'.from_pos = last'.to_pos
           \/ ~InRange(gf, last'.from_pos)
           \/ ~InRange(gf, last'.to_pos)
           \/ Before(last'.from_pos) = <<>>
           \/ Before(last'.to_pos) = <<>>) =>
          /\ last'.exc = "none"
          /\ ~last'.ret
          /\ ~last'.made_after
          /\ FieldUnchanged]_vars

\* C8: a Move that is not made and no skip becomes made by exactly the
\* make_move calls that return True, a made Move becomes unmade by exactly
\* the take_back calls that return normally, and no other call changes which
\* Moves are made; make_move of a made Move raises and leaves the field and
\* the Move as they were; take_back of a Move that is not made raises and
\* leaves the field as it was
C8_MoveLifecycle ==
    [][/\ \A i \in 1..Len(moves') : already_made(moves'[i].move)
       /\ (MakeUnmadeCall /\ last'.with_move) =>
             /\ last'.made_after <=> (last'.exc = "none" /\ last'.ret)
             /\ Len(moves') = Len(moves) + (IF last'.made_after THEN 1 ELSE 0)
       /\ TakeBackMadeCall =>
             /\ last'.made_after <=> last'.exc # "none"
             /\ Len(moves') = Len(moves) - (IF last'.made_after THEN 0 ELSE 1)
       /\ ~(MakeUnmadeCall /\ last'.with_move) /\ ~TakeBackMadeCall =>
             /\ Len(moves') = Len(moves)
             /\ last'.op \in {"make_move", "take_back"} => last'.made_after = last'.made_before
       /\ (last'.op = "make_move" /\ last'.made_before) =>
             /\ last'.exc = "RuntimeError"
             /\ FieldUnchanged
             /\ last'.made_after
             /\ moves'[last'.index].move.from_pos = moves[last'.index].move.from_pos
             /\ moves'[last'.index].move.to_pos = moves[last'.index].move.to_pos
             /\ Captured(heap', moves', last'.index) = Captured(heap, moves, last'.index)
       /\ (last'.op = "take_back" /\ ~last'.made_before /\ ~SkipCall) =>
             /\ last'.exc = "ValueError"
             /\ FieldUnchanged]_vars

\* C8 witness: the fourth call was a make_move of a Move that is made, and
\* its towers are still merged
C8_Witness ==
    /\ calls = 4
    /\ last.op = "make_move"
    /\ last.made_before /\ last.made_after
    /\ last.exc = "RuntimeError"
    /\ Len(moves) = 1
    /\ moves[1].made_on # None
    /\ Tower_height(heap, get_tower_at(gf, moves[1].move.to_pos)) = 2

\* C9: take_back of a made Move raises and leaves the field, the Move and
\* its captured tower as they were when the tower at from_pos has a height
\* above 0, when the tower at to_pos is lower than the captured tower, when
\* it equals the captured tower, and when the captured tower is not its top
C9_TakeBackRefuses ==
    [][(/\ TakeBackMadeCall
        /\ \/ Len(Before(moves[last'.index].move.from_pos)) > 0
           \/ Len(Before(moves[last'.index].move.to_pos)) < Len(Captured(heap, moves, last'.index))
           \/ Before(moves[last'.index].move.to_pos) = Captured(heap, moves, last'.index)
           \/ Take(Before(moves[last'.index].move.to_pos), Len(Captured(heap, moves, last'.index)))
                 # Captured(heap, moves, last'.index)) =>
          /\ last'.exc # "none"
          /\ FieldUnchanged
          /\ last'.made_after
          /\ Captured(heap', moves', last'.index) = Captured(heap, moves, last'.index)]_vars

\* C9 witness: take_back of a made Move found a tower at to_pos that is
\* high enough and has another top than the captured tower
C9_Witness ==
    /\ last.op = "take_back"
    /\ last.made_before /\ last.made_after
    /\ last.exc = "ValueError"
    /\ Tower_height(heap, get_tower_at(gf, last.from_pos)) = 0
    /\ Tower_height(heap, get_tower_at(gf, last.to_pos)) > Len(Captured(heap, moves, last.index))

\* C10: make_move of the skip move returns True and take_back of it returns
\* normally, whatever was called before; neither changes a tower of the
\* field or a made Move, and the skip move is never made
C10_SkipMoveNoOp ==
    [][(last'.op \in {"make_move", "take_back"} /\ SkipCall
          /\ (last'.op = "make_move" => last'.with_move)) =>
          /\ last'.exc = "none"
          /\ last'.op = "make_move" => last'.ret
          /\ ~last'.made_after
          /\ FieldUnchanged
          /\ Len(moves') = Len(moves)
          /\ \A i \in 1..Len(moves) :
                Captured(heap', moves', i) = Captured(heap, moves, i)]_vars

\* C10 witness: the skip move was taken back in the third call or later,
\* while a real Move is made
C10_Witness ==
    /\ last.op = "take_back"
    /\ last.from_pos = SkipPos /\ last.to_pos = SkipPos
    /\ last.exc = "none"
    /\ calls >= 3
    /\ Len(moves) = 1

\* ------------------------------------------------------------------------
\* Properties of GameNode.children
\* ------------------------------------------------------------------------
\* an activation that has just evaluated node.children()
Expanded == stack # <<>> /\ err = "none" /\ Top.pc = "loop" /\ Top.idx = 1

\* the moves the rule set allows the player of the node on the field
AllowedMoves(g, hp, node) ==
    {m \in BoardPositions(g.height, g.width) \X BoardPositions(g.height, g.width) :
        allows_move(rules, g, hp, NodePlayer(g, node), m[1], m[2])}

\* the indices of the children with a real move
NonSkip(ch) == {k \in 1..Len(ch) : ~is_skip_move(ch[k].move)}

\* C11: a node whose player has no allowed move has exactly one child, a
\* skip on the unchanged field, if it was not reached by a skip, and no
\* child if it was; only a node of the second kind has no child
C11_SkipChild ==
    Expanded =>
      /\ (AllowedMoves(gf, heap, Top.node) = {} /\ ~Top.node.skipped_before) =>
            /\ Len(Top.children) = 1
            /\ is_skip_move(Top.children[1].move)
            /\ Top.children[1].skipped_before
            /\ Top.children[1].max_player = ~Top.node.max_player
            /\ Structures(gf, heap) = Top.entry
      /\ (AllowedMoves(gf, heap, Top.node) = {} /\ Top.node.skipped_before) =>
            Top.children = <<>>
      /\ Top.children = <<>> =>
            (AllowedMoves(gf, heap, Top.node) = {} /\ Top.node.skipped_before)

\* C11 witness: on a field of several cells a node reached by a skip has
\* no child, its parent having had the skip as its only child
C11_Witness ==
    /\ Expanded
    /\ Len(stack) >= 3
    /\ Len(gf.field) >= 2
    /\ Top.children = <<>>
    /\ Top.node.skipped_before
    /\ Len(stack[Len(stack) - 1].children) = 1
    /\ ~stack[Len(stack) - 1].node.skipped_before

\* C12: the children with a real move are, one for one, the moves the rule
\* set allows the player of the node on the field, and there is a skip
\* child only if no move is allowed
C12_ChildrenAreAllowedMoves ==
    Expanded =>
      /\ {<<Top.children[k].move.from_pos, Top.children[k].move.to_pos>> :
             k \in NonSkip(Top.children)} = AllowedMoves(gf, heap, Top.node)
      /\ Cardinality(NonSkip(Top.children)) = Cardinality(AllowedMoves(gf, heap, Top.node))
      /\ NonSkip(Top.children) # {} => NonSkip(Top.children) = 1..Len(Top.children)

\* C12 witness: a node two moves deep with several allowed moves under the
\* Kings rule set, one of them diagonal
C12_Witness ==
    /\ Expanded
    /\ Len(stack) >= 3
    /\ rules = "kings"
    /\ Cardinality(NonSkip(Top.children)) >= 2
    /\ \E k \in NonSkip(Top.children) :
          /\ Top.children[k].move.from_pos[1] # Top.children[k].move.to_pos[1]
          /\ Top.children[k].move.from_pos[2] # Top.children[k].move.to_pos[2]

\* ------------------------------------------------------------------------
\* One call on a field (SpecQuery): the field is a constructed one, or one
\* whose towers were set with set_tower_at(pos, Tower(structure=...)); the
\* call is recorded in `last`
\* ------------------------------------------------------------------------
\* the structures of the towers that were set
TowerStructures ==
    {<<>>, <<Player1>>, <<Player2>>, <<Player1, Player2>>, <<Player2, Player1, Player1>>}

QueryDims == {d \in (1..MaxHeight) \X (1..MaxWidth) : d[1] * d[2] <= MaxQueryCells}

\* GameField(h, w) followed by set_tower_at(pos, Tower(structure=s[pos])) for
\* every position
FieldOf(h, w, s) == [gf |-> GameField_init(h, w, Player1, Player2).gf, heap |-> s]

\* GameField(h, w, player1, player2)
ConstructedFields ==
    {GameField_init(d[1], d[2], p[1], p[2]) :
        d \in (1..MaxHeight) \X (1..MaxWidth),
        p \in {<<Player1, Player2>>, <<Player2, Player1>>}}

QueryFields ==
    ConstructedFields \cup
    UNION {{FieldOf(d[1], d[2], s) : s \in [1..(d[1] * d[2]) -> TowerStructures]} :
              d \in QueryDims}

\* the positions passed to get_tower_at and set_tower_at: those of the board
\* and those one step beyond each of its borders
QueryPositions(g) == ((-1)..g.height) \X ((-1)..g.width)

\* the positions passed to allows_move: those of the board, one above it,
\* one to its right, and None
RulePositions(g) ==
    BoardPositions(g.height, g.width) \cup {<<-1, 0>>, <<0, g.width>>, None}

\* the call is the only one on this field
Fresh == last = NoCall /\ stack = <<>>

QuerySide == UNCHANGED <<rules, stack, counter, err, all_made, pruned, moves, calls>>

\* game_field.value
QueryValue ==
    /\ Fresh
    /\ last' = [op |-> "value", ret |-> value(gf, heap)]
    /\ UNCHANGED <<gf, heap>>
    /\ QuerySide

\* rule_set_type(game_field).allows_move(player, from_pos, to_pos)
QueryAllowsMove(rs, player, from_pos, to_pos) ==
    /\ Fresh
    /\ last' = [op |-> "allows_move", rules |-> rs, player |-> player,
                from_pos |-> from_pos, to_pos |-> to_pos,
                ret |-> allows_move(rs, gf, heap, player, from_pos, to_pos),
                exc |-> "none"]
    /\ UNCHANGED <<gf, heap>>
    /\ QuerySide

\* game_field.get_tower_at(pos)
QueryGetTowerAt(pos) ==
    /\ Fresh
    /\ last' = [op |-> "get_tower_at", pos |-> pos, ret |-> get_tower_at(gf, pos)]
    /\ UNCHANGED <<gf, heap>>
    /\ QuerySide

\* game_field.set_tower_at(pos, None) or game_field.set_tower_at(pos, Tower(structure=tower))
QuerySetTowerAt(pos, tower) ==
    /\ Fresh
    /\ SetTowerAtDone(pos, tower,
           IF tower = None
           THEN set_tower_at(gf, heap, pos, NoTower)
           ELSE set_tower_at(gf, Alloc(heap, NewRef(heap), tower), pos, NewRef(heap)))
    /\ UNCHANGED <<rules, stack, counter, err, all_made, pruned, calls>>

NextQuery ==
    \/ QueryValue
    \/ \E rs \in RuleSets, player \in {gf.player1, gf.player2} :
         \E from_pos \in RulePositions(gf), to_pos \in RulePositions(gf) :
            QueryAllowsMove(rs, player, from_pos, to_pos)
    \/ \E pos \in QueryPositions(gf) : QueryGetTowerAt(pos)
    \/ \E pos \in QueryPositions(gf), tower \in TowerInputs : QuerySetTowerAt(pos, tower)

InitQuery ==
    \E f \in QueryFields :
        /\ gf = f.gf
        /\ heap = f.heap
        /\ moves = <<>>
        /\ calls = 0
        /\ last = NoCall
        /\ rules = "base"
        /\ stack = <<>>
        /\ counter = 0
        /\ err = "none"
        /\ all_made = TRUE
        /\ pruned = FALSE

SpecQuery == InitQuery /\ [][NextQuery]_vars

\* the heights of the towers of `player` that have a brick
HeightsOf(g, hp, player) ==
    {Len(hp[g.field[i]]) : i \in {j \in 1..Len(g.field) :
        Len(hp[g.field[j]]) > 0 /\ hp[g.field[j]][1] = player}}

Tallest(g, hp, player) ==
    IF HeightsOf(g, hp, player) = {} THEN 0
    ELSE CHOOSE m \in HeightsOf(g, hp, player) : \A n \in HeightsOf(g, hp, player) : n <= m

\* C13: the value of a field is the greatest height among the towers of
\* height > 0 whose top brick is player1 (0 if there is none) minus the same
\* for player2; towers of height 0 are ignored
C13_ValueIsDifferenceOfTallest ==
    last.op = "value" =>
        last.ret = Tallest(gf, heap, gf.player1) - Tallest(gf, heap, gf.player2)

C13_Witness ==
    /\ last.op = "value"
    /\ last.ret = -2
    /\ \E i \in 1..Len(gf.field) : Len(heap[gf.field[i]]) = 0
    /\ \E i \in 1..Len(gf.field) : heap[gf.field[i]] = <<Player1>>
    /\ \E i \in 1..Len(gf.field) : heap[gf.field[i]] = <<Player2, Player1, Player1>>

\* the field is as GameField(height, width, player1, player2) built it
Constructed == [gf |-> gf, heap |-> heap] \in ConstructedFields

\* towers of one brick in a chessboard pattern, player1 at (0, 0)
Checkerboard(g, hp) ==
    \A x \in 0..(g.height - 1), y \in 0..(g.width - 1) :
        hp[get_tower_at(g, <<x, y>>)] =
            << IF (x + y) % 2 = 0 THEN g.player1 ELSE g.player2 >>

\* C14: a newly constructed field is a checkerboard of towers of one brick
\* with player1 at (0, 0); its value is 0 when it has more than one cell and
\* +1 or -1, the sign of the player on it, when it has exactly one
C14_ValueAfterConstruction ==
    (Constructed /\ last.op = "value") =>
        /\ Checkerboard(gf, heap)
        /\ gf.height * gf.width > 1 => last.ret = 0
        /\ gf.height * gf.width = 1 =>
              last.ret = (IF heap[get_tower_at(gf, <<0, 0>>)] = <<gf.player1>> THEN 1 ELSE -1)

C14_Witness ==
    /\ Constructed
    /\ last.op = "value"
    /\ gf.height = MaxHeight /\ gf.width = MaxWidth
    /\ gf.player1 = Player2
    /\ last.ret = 0

\* C15: whatever set_tower_at, make_move and take_back calls were made on a
\* constructed field, get_tower_at returns a Tower whose structure is not
\* None (its height may be 0) for every position of the board, and
\* set_tower_at(pos, None) has stored a tower of height 0 at pos
C15_EveryPositionHoldsATower ==
    /\ \A pos \in BoardPositions(gf.height, gf.width) :
          /\ get_tower_at(gf, pos) # NoTower
          /\ get_tower_at(gf, pos) \in DOMAIN heap
          /\ heap[get_tower_at(gf, pos)] # NoStructure
          /\ Tower_height(heap, get_tower_at(gf, pos)) >= 0
    /\ (last.op = "set_tower_at" /\ last.tower = None /\ last.ret) =>
          Tower_height(heap, get_tower_at(gf, last.pos)) = 0

C15_Witness ==
    /\ last.op = "set_tower_at" /\ last.tower = None /\ last.ret
    /\ calls = MaxCalls
    /\ Len(moves) >= 1
    /\ Tower_height(heap, get_tower_at(gf, moves[1].move.to_pos)) = 2

\* the row of pos is outside [0, height) or its column is outside [0, width)
OffBoard(g, pos) ==
    \/ pos[1] < 0 \/ pos[1] >= g.height
    \/ pos[2] < 0 \/ pos[2] >= g.width

GetTowerAtCall == last'.op = "get_tower_at" /\ last.op = "none"

SetTowerAtCall == last'.op = "set_tower_at" /\ last.op = "none"

\* C16: for a position off the board (negative coordinates included)
\* get_tower_at returns None and set_tower_at returns False and leaves every
\* tower of the field as it was, neither raising; for a position of the
\* board set_tower_at returns True, get_tower_at then returns the tower that
\* was set (a tower of height 0 for None), and the other towers are as they
\* were
C16_GetAndSetTowerAt ==
    [][/\ GetTowerAtCall =>
            /\ OffBoard(gf, last'.pos) => last'.ret = NoTower
            /\ ~OffBoard(gf, last'.pos) =>
                  last'.ret = gf.field[last'.pos[1] * gf.width + last'.pos[2] + 1]
            /\ Structures(gf', heap') = Structures(gf, heap)
       /\ (SetTowerAtCall /\ OffBoard(gf, last'.pos)) =>
            /\ last'.ret = FALSE
            /\ last'.exc = "none"
            /\ gf' = gf
            /\ Structures(gf', heap') = Structures(gf, heap)
       /\ (SetTowerAtCall /\ ~OffBoard(gf, last'.pos)) =>
            /\ last'.ret = TRUE
            /\ last'.exc = "none"
            /\ get_tower_at(gf', last'.pos) # NoTower
            /\ heap'[get_tower_at(gf', last'.pos)] = last'.tower
            /\ \A pos \in BoardPositions(gf.height, gf.width) :
                  pos # last'.pos =>
                      heap'[get_tower_at(gf', pos)] = heap[get_tower_at(gf, pos)]
      ]_vars

C16_Witness ==
    /\ last.op = "set_tower_at"
    /\ last.pos = <<-1, gf.width>>
    /\ last.tower = <<Player1>>
    /\ last.ret = FALSE
    /\ gf.height * gf.width = MaxQueryCells

\* ------------------------------------------------------------------------
\* Calls on towers (SpecTower): `lower` and `upper` are two towers, `copy` is
\* Tower(structure=upper.structure.copy()) as make_move takes it; no field
\* is involved
\* ------------------------------------------------------------------------
lower == 1
upper == 2
copy == 3

NoField == [height |-> 0, width |-> 0, player1 |-> Player1, player2 |-> Player2,
            field |-> <<>>]

\* the structures of the two towers: those a constructor takes, and None,
\* which an assignment to the attribute gives
StructureInputs == TowerStructures \cup {NoStructure}

\* the call before the latest one
Previous == IF last.op = "none" THEN <<>> ELSE <<last.op, last.self, last.tower>>

TowerSide == UNCHANGED <<gf, rules, stack, counter, err, all_made, pruned, moves>>

TowerCalling ==
    /\ gf = NoField
    /\ calls < MaxTowerCalls
    /\ calls' = calls + 1

\* self.move_on_top_of(tower)
TowerMoveOnTopOf(self, tower) ==
    /\ TowerCalling
    /\ heap' = move_on_top_of(heap, self, tower).heap
    /\ last' = [op |-> "move_on_top_of", self |-> self, tower |-> tower,
                exc |-> move_on_top_of(heap, self, tower).exc, prev |-> Previous]
    /\ TowerSide

\* self.detach(tower)
TowerDetach(self, tower) ==
    /\ TowerCalling
    /\ heap' = detach(heap, self, tower).heap
    /\ last' = [op |-> "detach", self |-> self, tower |-> tower,
                exc |-> detach(heap, self, tower).exc, prev |-> Previous]
    /\ TowerSide

NextTower ==
    \/ \E self \in DOMAIN heap, tower \in DOMAIN heap \cup {NoTower} :
          TowerMoveOnTopOf(self, tower)
    \/ \E self \in DOMAIN heap, tower \in DOMAIN heap \cup {NoTower} :
          TowerDetach(self, tower)

InitTower ==
    \E l \in StructureInputs, u \in StructureInputs :
        /\ heap = <<l, u, u>>
        /\ gf = NoField
        /\ moves = <<>>
        /\ calls = 0
        /\ last = NoCall
        /\ rules = "base"
        /\ stack = <<>>
        /\ counter = 0
        /\ err = "none"
        /\ all_made = TRUE
        /\ pruned = FALSE

SpecTower == InitTower /\ [][NextTower]_vars

\* upper.move_on_top_of(lower) was the one call made: copy still has the
\* structure upper had, lower is as it was
Attached ==
    /\ last.op = "move_on_top_of" /\ last.self = upper /\ last.tower = lower
    /\ calls = 1

\* upper.move_on_top_of(lower) and then upper.detach(copy) were called
AttachedAndDetached ==
    /\ last.op = "detach" /\ last.self = upper /\ last.tower = copy
    /\ last.prev = <<"move_on_top_of", upper, lower>>
    /\ calls = 2

\* C17: when the upper tower is attached on top of the lower one, the result
\* has the bricks of the upper tower followed by those of the lower one and
\* its height is the sum of the two heights; detaching the upper tower from
\* the result then leaves exactly the structure of the lower tower
C17_AttachThenDetach ==
    /\ (Attached /\ heap[lower] # NoStructure /\ heap[copy] # NoStructure) =>
          /\ last.exc = "none"
          /\ heap[upper] = heap[copy] \o heap[lower]
          /\ Tower_height(heap, upper) =
                 Tower_height(heap, copy) + Tower_height(heap, lower)
    /\ (AttachedAndDetached /\ heap[lower] # NoStructure /\ heap[copy] # NoStructure) =>
          /\ last.exc = "none"
          /\ heap[upper] = heap[lower]

C17_Witness ==
    /\ AttachedAndDetached
    /\ last.exc = "none"
    /\ heap[copy] = <<Player2, Player1, Player1>>
    /\ heap[lower] = <<Player1, Player2>>
    /\ heap[upper] = heap[lower]

\* C18: move_on_top_of raises a ValueError and leaves both towers as they
\* were when the other tower is None or one of the two towers is empty (of
\* height 0, or without a structure)
C18_AttachRefusesEmpty ==
    [][(/\ last'.op = "move_on_top_of"
        /\ calls' = calls + 1
        /\ \/ last'.tower = NoTower
           \/ heap[last'.self] \in {<<>>, NoStructure}
           \/ heap[last'.tower] \in {<<>>, NoStructure}) =>
          /\ last'.exc = "ValueError"
          /\ heap' = heap]_vars

\* the base legality gate: both positions given and on the board, distinct,
\* each holding a tower of height > 0
Gate(g, hp, from_pos, to_pos) ==
    /\ from_pos # None /\ to_pos # None
    /\ ~OffBoard(g, from_pos)
    /\ ~OffBoard(g, to_pos)
    /\ from_pos # to_pos
    /\ Len(hp[g.field[from_pos[1] * g.width + from_pos[2] + 1]]) > 0
    /\ Len(hp[g.field[to_pos[1] * g.width + to_pos[2] + 1]]) > 0

\* the structure of the tower at a position of the board
StructureAt(g, hp, pos) == hp[g.field[pos[1] * g.width + pos[2] + 1]]

Manhattan(a, b) ==
    (IF a[1] >= b[1] THEN a[1] - b[1] ELSE b[1] - a[1]) +
    (IF a[2] >= b[2] THEN a[2] - b[2] ELSE b[2] - a[2])

AllowsMoveCall == last'.op = "allows_move" /\ last.op = "none"

\* C19: whatever the rule set, the field and the player, allows_move is
\* False when from_pos or to_pos is off the board, when they are the same,
\* or when the tower at one of them has height 0; and allows_move leaves
\* the field as it is
C19_GateAndNoChange ==
    [][AllowsMoveCall =>
          /\ ~Gate(gf, heap, last'.from_pos, last'.to_pos) => last'.ret = FALSE
          /\ gf' = gf
          /\ heap' = heap]_vars

C19_Witness ==
    /\ last.op = "allows_move"
    /\ last.rules = "kings"
    /\ last.ret = FALSE
    /\ last.from_pos # None /\ last.to_pos # None
    /\ ~OffBoard(gf, last.from_pos) /\ ~OffBoard(gf, last.to_pos)
    /\ Manhattan(last.from_pos, last.to_pos) = 2
    /\ StructureAt(gf, heap, last.from_pos) = <<last.player>>
    /\ StructureAt(gf, heap, last.to_pos) = <<>>

\* C20: BaseRuleSet.allows_move is True exactly when the base legality gate
\* holds, the Manhattan distance of the two positions is exactly 1 and the
\* top brick of the tower at from_pos is the player
C20_BaseRuleSet ==
    (last.op = "allows_move" /\ last.rules = "base") =>
        (last.ret <=>
            /\ Gate(gf, heap, last.from_pos, last.to_pos)
            /\ Manhattan(last.from_pos, last.to_pos) = 1
            /\ StructureAt(gf, heap, last.from_pos)[1] = last.player)

C20_Witness ==
    /\ last.op = "allows_move" /\ last.rules = "base"
    /\ last.ret = TRUE
    /\ last.player = Player2
    /\ StructureAt(gf, heap, last.from_pos) = <<Player2, Player1, Player1>>
    /\ StructureAt(gf, heap, last.to_pos) = <<Player1, Player2>>
    /\ last.from_pos[1] # last.to_pos[1]

\* the greater of the distances of the rows and of the columns
Chebyshev(a, b) ==
    LET dx == IF a[1] >= b[1] THEN a[1] - b[1] ELSE b[1] - a[1]
        dy == IF a[2] >= b[2] THEN a[2] - b[2] ELSE b[2] - a[2]
    IN  IF dx >= dy THEN dx ELSE dy

\* allows_move of rule set rs was called
Asked(rs) == last.op = "allows_move" /\ last.rules = rs

\* C21: KingsRuleSet.allows_move is True exactly when the base legality gate
\* holds, the Chebyshev distance of the two positions is exactly 1 and the
\* top brick of the tower at from_pos is the player; so diagonal moves are
\* allowed and no move of distance 2 or more is
C21_KingsRuleSet ==
    Asked("kings") =>
        (last.ret <=>
            /\ Gate(gf, heap, last.from_pos, last.to_pos)
            /\ Chebyshev(last.from_pos, last.to_pos) = 1
            /\ StructureAt(gf, heap, last.from_pos)[1] = last.player)

C21_Witness ==
    /\ Asked("kings")
    /\ last.ret = TRUE
    /\ last.from_pos[1] # last.to_pos[1]
    /\ last.from_pos[2] # last.to_pos[2]
    /\ StructureAt(gf, heap, last.from_pos) = <<Player1, Player2>>

\* C22: MoveOnOpposingOnlyRuleSet.allows_move is True exactly when
\* BaseRuleSet allows the move (gate, Manhattan distance 1, top brick of the
\* tower at from_pos is the player) and the top brick of the tower at to_pos
\* differs from the top brick of the tower at from_pos
C22_MoveOnOpposingOnlyRuleSet ==
    Asked("oppose") =>
        (last.ret <=>
            /\ Gate(gf, heap, last.from_pos, last.to_pos)
            /\ Manhattan(last.from_pos, last.to_pos) = 1
            /\ StructureAt(gf, heap, last.from_pos)[1] = last.player
            /\ StructureAt(gf, heap, last.to_pos)[1] # StructureAt(gf, heap, last.from_pos)[1])

C22_Witness ==
    /\ Asked("oppose")
    /\ last.ret = FALSE
    /\ Gate(gf, heap, last.from_pos, last.to_pos)
    /\ Manhattan(last.from_pos, last.to_pos) = 1
    /\ StructureAt(gf, heap, last.from_pos) = <<last.player>>
    /\ StructureAt(gf, heap, last.to_pos) = <<Player2, Player1, Player1>>
    /\ last.player = Player2

\* bricks of `player` in the structure s
BricksOf(s, player) ==
    LET RECURSIVE count(_)
        count(i) == IF i = 0 THEN 0
                    ELSE (IF s[i] = player THEN 1 ELSE 0) + count(i - 1)
    IN  count(Len(s))

\* C23: MajorityRuleSet.allows_move is True exactly when the base legality
\* gate holds, the Manhattan distance is exactly 1 and twice the number of
\* bricks of the player in the tower at from_pos is at least its height;
\* the top brick need not be the player's
C23_MajorityRuleSet ==
    Asked("majority") =>
        (last.ret <=>
            /\ Gate(gf, heap, last.from_pos, last.to_pos)
            /\ Manhattan(last.from_pos, last.to_pos) = 1
            /\ 2 * BricksOf(StructureAt(gf, heap, last.from_pos), last.player)
                  >= Len(StructureAt(gf, heap, last.from_pos)))

C23_Witness ==
    /\ Asked("majority")
    /\ last.ret = TRUE
    /\ last.player = Player1
    /\ StructureAt(gf, heap, last.from_pos) = <<Player2, Player1, Player1>>

\* C24: FreeRuleSet.allows_move is True exactly when the base legality gate
\* holds and the Manhattan distance is exactly 1, whoever the player is
C24_FreeRuleSet ==
    Asked("free") =>
        (last.ret <=>
            /\ Gate(gf, heap, last.from_pos, last.to_pos)
            /\ Manhattan(last.from_pos, last.to_pos) = 1)

C24_Witness ==
    /\ Asked("free")
    /\ last.ret = TRUE
    /\ StructureAt(gf, heap, last.from_pos)[1] # last.player
    /\ StructureAt(gf, heap, last.to_pos)[1] # last.player

\* C25: whatever the rule set, allows_move raises a ValueError when from_pos
\* or to_pos (or both) is None, and returns no boolean
C25_MissingPositionRaises ==
    (last.op = "allows_move" /\ (last.from_pos = None \/ last.to_pos = None)) =>
        last.exc = "ValueError"

\* a finished root call that traced the moves
RootTraced == RootDone /\ stack[1].trace_moves

\* the entry of a skip move in a move list
SkipEntry == <<SkipPos, SkipPos>>

\* the moves of a list are replayed from the structures `structs`, the
\* players alternating: an entry that is a real move must be allowed for the
\* player of its ply, a skip needs a player without an allowed move, and an
\* entry that is None cannot be replayed
RECURSIVE Replay(_, _, _, _)
Replay(structs, list, i, max_turn) ==
    IF i > Len(list) THEN [ok |-> TRUE, structs |-> structs]
    ELSE IF list[i] = None THEN [ok |-> FALSE, structs |-> structs]
    ELSE IF list[i] = SkipEntry
    THEN (IF AllowedMoves(FieldWith(structs).gf, FieldWith(structs).heap,
                          GameNode(None, max_turn, FALSE)) = {}
          THEN Replay(structs, list, i + 1, ~max_turn)
          ELSE [ok |-> FALSE, structs |-> structs])
    ELSE IF list[i] \in AllowedMoves(FieldWith(structs).gf, FieldWith(structs).heap,
                                     GameNode(None, max_turn, FALSE))
    THEN Replay(StructuresAfter(gf, structs,
                    [from_pos |-> list[i][1], to_pos |-> list[i][2]]),
                list, i + 1, ~max_turn)
    ELSE [ok |-> FALSE, structs |-> structs]

\* r is what the replay of the returned list gave
PrincipalVariation(root, r) ==
    /\ Len(root.ret.move_list) <= root.depth
    /\ r.ok
    /\ value(FieldWith(r.structs).gf, FieldWith(r.structs).heap) = root.ret.value

\* C26: the move list a traced root call with the full window returns is a
\* principal variation: it has at most depth entries, replayed from the
\* start field with the players alternating every real move is allowed for
\* the player of its ply and every skip stands where that player has no
\* allowed move, and the value of the field after the replay is the value
\* returned
C26_PrincipalVariation ==
    RootTraced =>
        PrincipalVariation(stack[1],
            Replay(stack[1].entry, stack[1].ret.move_list, 1, stack[1].maximising_player))

\* C27: the move list a traced call returns holds no None: the root adds
\* nothing to it, every other call puts exactly its own move in front of
\* the list of its best child
C27_NoAbsentEntry ==
    /\ RootTraced =>
          \A i \in 1..Len(stack[1].ret.move_list) : stack[1].ret.move_list[i] # None
    /\ (err = "none" /\ Len(stack) > 1 /\ Top.pc = "done") =>
          /\ Top.ret.move_list # <<>>
          /\ Top.ret.move_list[1] = MoveEntry(Top.node.move)

\* ------------------------------------------------------------------------
\* Searches of the scenarios (SpecScenario): the base rule set on the
\* constructed 1 x 2 and 2 x 2 fields and on the fields set up with the two
\* towers [player1] at (0, 0) and [player2] at (0, 1)
\* ------------------------------------------------------------------------
\* {(0, 0): Tower(owner=player1), (0, 1): Tower(owner=player2)}
TwoTowerSpecs ==
    [pos \in {<<0, 0>>, <<0, 1>>} |->
        IF pos = <<0, 0>> THEN <<Player1>> ELSE <<Player2>>]

ScenarioFields ==
    {[gf |-> g.gf, heap |-> g.heap] :
        g \in {GameField_init(1, 2, Player1, Player2),
               GameField_init(2, 2, Player1, Player2)}}
    \cup
    {[gf |-> g.gf, heap |-> g.heap] :
        g \in {setup_field(TwoTowerSpecs, d[1], d[2]) : d \in Dims}}

ScenarioDepths(g) == (1..MaxScenarioDepth) \cup {2 * g.height * g.width + 1}

InitScenario ==
    \E f \in ScenarioFields, max_player \in BOOLEAN, trace_moves \in BOOLEAN :
      \E depth \in ScenarioDepths(f.gf) :
        /\ gf = f.gf
        /\ heap = f.heap
        /\ rules = "base"
        /\ stack = <<Frame(GameNode(None, max_player, FALSE), depth, -Inf, Inf,
                           max_player, trace_moves, Structures(f.gf, f.heap))>>
        /\ counter = 0
        /\ err = "none"
        /\ all_made = TRUE
        /\ pruned = FALSE
        /\ moves = <<>>
        /\ calls = 0
        /\ last = NoCall

SpecScenario == InitScenario /\ [][NextSearch]_vars

\* the search started on the field GameField(h, w) built
StartedOnConstructed(h, w) ==
    /\ gf.height = h /\ gf.width = w
    /\ stack[1].entry = GameField_init(h, w, Player1, Player2).heap

\* the search started on a field set up with the two towers only
StartedOnTwoTowers ==
    stack[1].entry = Structures(setup_field(TwoTowerSpecs, gf.height, gf.width).gf,
                                setup_field(TwoTowerSpecs, gf.height, gf.width).heap)

\* the value a search of the root returned is v if the maximising player
\* started and -v if the minimising player did
ReturnedFor(root, v) ==
    root.ret.value = (IF root.maximising_player THEN v ELSE -v)

\* C28 as stated: on the constructed 1 x 2 field with the base rule set the
\* search returns +1 when player1, the maximising player, moves first and -1
\* when player2 does, at every depth >= 1
C28_OneByTwoValueOne ==
    (RootDone /\ rules = "base" /\ StartedOnConstructed(1, 2) /\ stack[1].depth >= 1) =>
        ReturnedFor(stack[1], 1)

\* C28, amended: on the constructed 1 x 2 field with the base rule set the
\* search returns +2 when player1, the maximising player, moves first and -2
\* when player2 does, at every depth >= 1: the one merge leaves a tower of
\* height 2 to the mover and none to the other player
C28_OneByTwoValueTwo ==
    (RootDone /\ rules = "base" /\ StartedOnConstructed(1, 2) /\ stack[1].depth >= 1) =>
        ReturnedFor(stack[1], 2)

C28_Witness ==
    /\ RootDone /\ rules = "base" /\ StartedOnConstructed(1, 2)
    /\ stack[1].depth = 5
    /\ ~stack[1].maximising_player
    /\ stack[1].ret.value = -2

\* C29: on a field whose only towers are [player1] at (0, 0) and [player2]
\* at (0, 1), with the base rule set, the search returns +2 when the
\* maximising player starts and -2 when the minimising player starts, for
\* every depth from 1 to 4
C29_OneForcedMove ==
    (RootDone /\ rules = "base" /\ StartedOnTwoTowers /\ stack[1].depth \in 1..4) =>
        ReturnedFor(stack[1], 2)

C29_Witness ==
    /\ RootDone /\ rules = "base" /\ StartedOnTwoTowers
    /\ gf.height = 2 /\ gf.width = 2
    /\ stack[1].depth = 4
    /\ stack[1].maximising_player
    /\ stack[1].ret.value = 2

\* C30: on the constructed 2 x 2 field with the base rule set, the
\* maximising player starting and depth 2 * height * width + 1 = 9, the
\* traced search returns the value 4 and a move list of exactly three real
\* moves followed by one skip move
C30_TwoByTwo ==
    (/\ RootTraced /\ rules = "base" /\ StartedOnConstructed(2, 2)
     /\ stack[1].maximising_player /\ stack[1].depth = 9) =>
        /\ stack[1].ret.value = 4
        /\ Len(stack[1].ret.move_list) = 4
        /\ \A i \in 1..3 : stack[1].ret.move_list[i] \notin {None, SkipEntry}
        /\ stack[1].ret.move_list[4] = SkipEntry

C30_Witness ==
    /\ RootTraced /\ rules = "base" /\ StartedOnConstructed(2, 2)
    /\ stack[1].maximising_player /\ stack[1].depth = 9
    /\ stack[1].ret.value = 4
    /\ stack[1].ret.move_list =
          << <<<<1, 1>>, <<0, 1>>>>, <<<<1, 0>>, <<0, 0>>>>, <<<<0, 1>>, <<0, 0>>>>, SkipEntry >>

\* ------------------------------------------------------------------------
\* Nodes without an allowed move (checked under SpecSearch)
\* ------------------------------------------------------------------------
\* the node with the other player to move
Opponent(node) == [node EXCEPT !.max_player = ~node.max_player]

\* an activation has returned without an exception
TopDone == err = "none" /\ stack # <<>> /\ Top.pc = "done"

\* C31: an activation for a node whose player has no allowed move returns
\* the current value of the field at depth 0 and at depth 1, and at every
\* depth if the opponent has no allowed move either
C31_NoMoveReturnsFieldValue ==
    (TopDone /\ AllowedMoves(gf, heap, Top.node) = {}) =>
      /\ Top.depth <= 1 => Top.ret.value = value(gf, heap)
      /\ AllowedMoves(gf, heap, Opponent(Top.node)) = {} => Top.ret.value = value(gf, heap)

\* C31 witness: on a field of several cells whose value is not 0 a root call
\* of depth >= 2 returns after its only child, the skip, returned from no
\* child at all
C31_Witness ==
    /\ RootDone
    /\ stack[1].depth >= 2
    /\ Len(gf.field) >= 2
    /\ AllowedMoves(gf, heap, Top.node) = {}
    /\ AllowedMoves(gf, heap, Opponent(Top.node)) = {}
    /\ stack[1].num_children = 1
    /\ is_skip_move(stack[1].children[1].move)
    /\ value(gf, heap) # 0
    /\ stack[1].ret.value = value(gf, heap)

\* ------------------------------------------------------------------------
\* Setting up a game: gamefabric.fabricate and the constructor of GameField,
\* with configurations that are in order and with ones that are not, and the
\* search main starts on what fabricate returned
\* ------------------------------------------------------------------------
\* how far below 1 the heights and widths tried go
MaxSetupShortfall == 2
MaxSetupHeight == 1
MaxSetupWidth == 2
MaxSetupDepth == 2

\* GameField(height, width, player1, player2) for any arguments: the
\* ValueError for two equal players, and range() of a number below 1, which
\* is empty
GameField_call(h, w, p1, p2) ==
    IF p1 = p2 THEN [gf |-> None, heap |-> <<>>, exc |-> "ValueError"]
    ELSE IF h < 1 \/ w < 1
    THEN [gf |-> [height |-> h, width |-> w, player1 |-> p1, player2 |-> p2,
                  field |-> <<>>],
          heap |-> <<>>, exc |-> "none"]
    ELSE [gf |-> GameField_init(h, w, p1, p2).gf,
          heap |-> GameField_init(h, w, p1, p2).heap, exc |-> "none"]

\* the rule-set tokens tried: those of RULES and one that is not among them
RuleTokens == RuleSets \cup {"chess"}

\* game_field_specs: None, or a dict of towers
NoSpecs == [given |-> FALSE]

GivenSpecs(specs) == [given |-> TRUE, specs |-> specs]

\* what fabricate does once the field is there: the start node
fabricate_node(g, max_player_starts) ==
    IF g.exc # "none"
    THEN [gf |-> None, heap |-> <<>>, node |-> None, exc |-> g.exc]
    ELSE [gf |-> g.gf, heap |-> g.heap,
          node |-> GameNode(None, max_player_starts, FALSE), exc |-> "none"]

\* gamefabric.fabricate
fabricate(token, height, width, max_player_starts, game_field_specs) ==
    IF token \notin RuleSets
    THEN [gf |-> None, heap |-> <<>>, node |-> None, exc |-> "RuntimeError"]
    ELSE IF ~game_field_specs.given
    THEN fabricate_node(GameField_call(height, width, Player1, Player2), max_player_starts)
    ELSE fabricate_node(setup_field(game_field_specs.specs, height, width), max_player_starts)

\* nothing has been set up yet
NothingSetUp == last = NoCall /\ stack = <<>>

\* the state after fabricate returned f or raised f.exc
Fabricated(token, height, width, max_player_starts, game_field_specs, f) ==
    /\ gf' = IF f.exc = "none" THEN f.gf ELSE gf
    /\ heap' = f.heap
    /\ rules' = token
    /\ err' = f.exc
    /\ last' = [op |-> "fabricate", rules |-> token, height |-> height, width |-> width,
                max_player_starts |-> max_player_starts, specs |-> game_field_specs,
                node |-> f.node, exc |-> f.exc]

\* game_field, start_node = gamefabric.fabricate(rules, height, width,
\*                                               max_player_starts, game_field_specs)
Fabricate(token, height, width, max_player_starts, game_field_specs) ==
    /\ NothingSetUp
    /\ Fabricated(token, height, width, max_player_starts, game_field_specs,
                  fabricate(token, height, width, max_player_starts, game_field_specs))
    /\ UNCHANGED <<stack, counter, all_made, pruned, moves, calls>>

\* the state after the constructor returned g or raised g.exc
Constructed_call(h, w, p1, p2, g) ==
    /\ gf' = IF g.exc = "none" THEN g.gf ELSE gf
    /\ heap' = g.heap
    /\ err' = g.exc
    /\ last' = [op |-> "GameField", height |-> h, width |-> w,
                player1 |-> p1, player2 |-> p2, exc |-> g.exc]

\* GameField(height, width, player1=p1, player2=p2)
Construct(h, w, p1, p2) ==
    /\ NothingSetUp
    /\ Constructed_call(h, w, p1, p2, GameField_call(h, w, p1, p2))
    /\ UNCHANGED <<rules, stack, counter, all_made, pruned, moves, calls>>

\* depth = min(2 * height * width + 1, max_depth)
main_depth(height, width, max_depth) ==
    IF 2 * height * width + 1 < max_depth THEN 2 * height * width + 1 ELSE max_depth

\* main: alpha_beta_search(node=start_node, depth=depth,
\*                         maximising_player=max_player_starts, trace_moves=True)
StartSearch(max_depth) ==
    /\ last.op = "fabricate"
    /\ err = "none"
    /\ stack = <<>>
    /\ stack' = <<Frame(last.node, main_depth(last.height, last.width, max_depth),
                        -Inf, Inf, last.max_player_starts, TRUE, Structures(gf, heap))>>
    /\ UNCHANGED <<gf, heap, rules, counter, err, all_made, pruned, moves, calls, last>>

\* the sizes tried: those of a board, and those with a number below 1 (a
\* height and a width both below 0 left out)
SetupSizes ==
    {d \in ((1 - MaxSetupShortfall)..MaxSetupHeight) \X ((1 - MaxSetupShortfall)..MaxSetupWidth) :
        d[1] >= 0 \/ d[2] >= 0}

\* None, and the specs on a board of MaxSetupHeight x MaxSetupWidth
SetupSpecs == {NoSpecs} \cup {GivenSpecs(sp) : sp \in SpecsOn(MaxSetupHeight, MaxSetupWidth)}

NextSetup ==
    \/ \E token \in RuleTokens, d \in SetupSizes, max_player_starts \in BOOLEAN :
         \E game_field_specs \in SetupSpecs :
            Fabricate(token, d[1], d[2], max_player_starts, game_field_specs)
    \/ \E d \in SetupSizes, p1 \in {Player1, Player2}, p2 \in {Player1, Player2} :
            Construct(d[1], d[2], p1, p2)
    \/ \E max_depth \in (0..MaxSetupDepth) \cup {Inf} : StartSearch(max_depth)
    \/ NextSearch

InitSetup ==
    /\ gf = NoField
    /\ heap = <<>>
    /\ moves = <<>>
    /\ calls = 0
    /\ last = NoCall
    /\ rules = "none"
    /\ stack = <<>>
    /\ counter = 0
    /\ err = "none"
    /\ all_made = TRUE
    /\ pruned = FALSE

SpecSetup == InitSetup /\ [][NextSetup]_vars

\* the towers of the specs all belong to the player that is player2 by
\* default: setup_field then constructs the field with player1 = player2
SamePlayers(game_field_specs) ==
    /\ game_field_specs.given
    /\ {game_field_specs.specs[pos][1] : pos \in DOMAIN game_field_specs.specs} = {Player2}

\* the configuration asked for is one of those that are not in order
BadConfiguration ==
    \/ /\ last.op = "fabricate"
       /\ \/ last.rules \notin RuleSets
          \/ last.height < 1
          \/ last.width < 1
          \/ SamePlayers(last.specs)
    \/ /\ last.op = "GameField"
       /\ \/ last.player1 = last.player2
          \/ last.height < 1
          \/ last.width < 1

\* no field, no node, nothing searched
NothingUsable == err # "none" /\ gf = NoField /\ stack = <<>> /\ counter = 0

\* C32: an unrecognised rule-set token, two identical players, or a height
\* or width below 1 end the set-up with an error: there is no field and no
\* node, and no search is ever started
C32_ConfigurationErrorsFailFast == BadConfiguration => NothingUsable

\* ------------------------------------------------------------------------
\* The callback (checked under SpecSearch)
\* ------------------------------------------------------------------------
\* an invocation passes its first statements: the step from "enter"
Enters ==
    /\ Len(stack') = Len(stack)
    /\ Top.pc = "enter"
    /\ stack'[Len(stack')].pc # "enter"

\* C33: the callback is called exactly once per invocation of
\* alpha_beta_search, as its first statement: the counter goes up by one in
\* the step in which an invocation starts and in no other; at that point the
\* invocation has no children yet and the field is as at its entry; a new
\* invocation begins at its start and is only left when it has returned;
\* after a cutoff the loop makes no further call; a search of depth 0 ends
\* with counter = 1
C33_CallbackOncePerInvocation ==
    [][/\ (counter' = counter + 1) <=> Enters
       /\ counter' # counter + 1 => counter' = counter
       /\ Top.pc = "enter" =>
             /\ Top.children = <<>>
             /\ Top.num_children = 0
             /\ Structures(gf, heap) = Top.entry
       /\ \A i \in 1..Len(stack) :
             (i <= Len(stack') /\ stack[i].pc # "enter") => stack'[i].pc # "enter"
       /\ Len(stack') > Len(stack) =>
             /\ Len(stack') = Len(stack) + 1
             /\ stack'[Len(stack')].pc = "enter"
             /\ counter' = counter
       /\ Len(stack') < Len(stack) => Top.pc = "done"
       /\ Top.pc = "after" => (counter' = counter /\ Len(stack') = Len(stack))
       /\ (Len(stack') = 1 /\ stack'[1].pc = "done" /\ stack'[1].depth = 0) => counter' = 1
      ]_vars

\* C33 witness: a finished search of depth >= 2 from a root with several
\* children that counted at least four invocations and in which a cutoff
\* left a sibling unsearched
C33_Witness ==
    /\ RootDone
    /\ stack[1].depth >= 2
    /\ pruned
    /\ counter >= 4
    /\ stack[1].num_children >= 2

\* ------------------------------------------------------------------------
\* Searches from the canonical layout, to main's depth and beyond; every
\* activation that can take a step takes it in the end, as the search is one
\* sequential computation
\* ------------------------------------------------------------------------
MaxExtraDepth == 2

\* main: 2 * height * width + 1
FullDepth(g) == 2 * g.height * g.width + 1

\* the fields GameField(height, width) constructs
CanonicalFields ==
    {[gf |-> g.gf, heap |-> g.heap] :
        g \in {GameField_init(d[1], d[2], Player1, Player2) : d \in Dims}}

\* the depths searched: small ones, main's, and larger ones
CanonicalDepths(g) ==
    (1..MaxDepth) \cup {FullDepth(g) + extra : extra \in 0..MaxExtraDepth}

InitCanonical ==
    \E f \in CanonicalFields, r \in RuleSets, max_player \in BOOLEAN :
      \E depth \in CanonicalDepths(f.gf) :
        /\ gf = f.gf
        /\ heap = f.heap
        /\ rules = r
        /\ stack = <<Frame(GameNode(None, max_player, FALSE), depth, -Inf, Inf,
                           max_player, TRUE, Structures(f.gf, f.heap))>>
        /\ counter = 0
        /\ err = "none"
        /\ all_made = TRUE
        /\ pruned = FALSE
        /\ moves = <<>>
        /\ calls = 0
        /\ last = NoCall

\* Call can take a step: an activation is at its entry
CallEnabled == err = "none" /\ stack # <<>> /\ Top.pc = "enter"

\* Descend can take a step: the loop has a child left
DescendEnabled ==
    err = "none" /\ stack # <<>> /\ Top.pc = "loop" /\ Top.idx <= Len(Top.children)

\* the search is one sequential computation: it does not stop while it has a
\* statement to execute. This is weak fairness of each of its four steps;
\* for Call and Descend it is written out, with the guard of the action for
\* its ENABLED
SearchRuns ==
    /\ []<>(~CallEnabled) \/ []<><<Call>>_vars
    /\ []<>(~DescendEnabled) \/ []<><<Descend>>_vars
    /\ WF_vars(Ascend)
    /\ WF_vars(Leave)

SpecCanonical == InitCanonical /\ [][NextSearch]_vars /\ SearchRuns

\* the number of plies of the longest line of play from a node, counted up
\* to `budget` plies: any child may be played, a skip is a ply
RECURSIVE LineLength(_, _, _, _)
LineLengthAfter(m, child, budget) ==
    LineLength(m.gf, m.heap, [child EXCEPT !.move = m.move], budget)

LineLengthOver(g, hp, budget, ch) ==
    IF ch = <<>> THEN 0
    ELSE 1 + SetMax({LineLengthAfter(node_make_move(g, hp, ch[k].node), ch[k].node,
                                     budget - 1) : k \in 1..Len(ch)})

LineLength(g, hp, node, budget) ==
    IF budget = 0 THEN 0
    ELSE LineLengthOver(g, hp, budget, _children(rules, g, hp, node).out)

\* the root call has just been made
RootEntered == Len(stack) = 1 /\ stack[1].pc = "enter"

\* C34: from the canonical layout every line of play reaches a node without
\* children after at most 2 * height * width plies; every search ends; a
\* search of depth 2 * height * width + 1 or more has no activation of depth
\* 0, and its value is that of every larger depth
C34_TerminatesWithinFullDepth ==
    /\ [](RootEntered =>
            LineLength(gf, heap, stack[1].node, FullDepth(gf)) <= 2 * gf.height * gf.width)
    /\ [](stack[1].depth >= FullDepth(gf) => \A i \in 1..Len(stack) : stack[i].depth >= 1)
    /\ []((RootDone /\ stack[1].depth >= FullDepth(gf)) =>
            \A extra \in 1..MaxExtraDepth :
                stack[1].ret.value =
                    MinimaxOfRoot(FieldWith(stack[1].entry),
                                  [stack[1] EXCEPT !.depth = stack[1].depth + extra]))
    /\ <>RootDone

\* C34 witness: a search of main's depth on a board of four cells has ended,
\* after more than ten invocations, with a value other than that of the
\* start field
C34_Witness ==
    /\ RootDone
    /\ stack[1].depth = FullDepth(gf)
    /\ Len(gf.field) = MaxCells
    /\ counter > 10
    /\ stack[1].ret.value # value(gf, heap)

\* ------------------------------------------------------------------------
\* children() and the field (checked under SpecSearch)
\* ------------------------------------------------------------------------
\* the heuristic value of a child, computed on the field of the parent with
\* the move of the child made
HeuristicOnParent(child, m) ==
    heuristic_value(m.gf, m.heap, [child EXCEPT !.move = m.move])

HeuristicOf(k) ==
    HeuristicOnParent(Top.children[k], node_make_move(gf, heap, Top.children[k]))

\* C35: when children() has been enumerated the field has at every position
\* the structure it had before, the same value, and every child's move is
\* unmade; every child's move is allowed on this field, the parent's, and
\* the children are in the order of their heuristic values on this field
\* with their move made
C35_ChildrenLeaveFieldUnchanged ==
    Expanded =>
      /\ Structures(gf, heap) = Top.entry
      /\ value(gf, heap) = value(FieldWith(Top.entry).gf, FieldWith(Top.entry).heap)
      /\ AllUnmade(Top)
      /\ \A k \in NonSkip(Top.children) :
            allows_move(rules, gf, heap, NodePlayer(gf, Top.node),
                        Top.children[k].move.from_pos, Top.children[k].move.to_pos)
      /\ \A k \in 1..(Len(Top.children) - 1) :
            IF Top.node.max_player
            THEN HeuristicOf(k) >= HeuristicOf(k + 1)
            ELSE HeuristicOf(k) <= HeuristicOf(k + 1)

\* C35 witness: two moves deep, a node has several children with real moves
\* whose heuristic values differ, on a field that differs from the start
\* field
C35_Witness ==
    /\ Expanded
    /\ Len(stack) >= 3
    /\ Len(Top.children) >= 3
    /\ NonSkip(Top.children) = 1..Len(Top.children)
    /\ HeuristicOf(1) # HeuristicOf(Len(Top.children))
    /\ Structures(gf, heap) = Top.entry
    /\ Top.entry # stack[1].entry

\* ------------------------------------------------------------------------
\* The cutoff (checked under SpecSearch)
\* ------------------------------------------------------------------------
\* the children of an activation that its loop has not reached
Remaining(f) == f.idx..Len(f.children)

MaxRotation == 4
MaxOrderCells == 3

Reverse(seq) == [k \in 1..Len(seq) |-> seq[Len(seq) + 1 - k]]

\* seq with its k-th element first
Rotate(seq, k) == SubSeq(seq, k, Len(seq)) \o SubSeq(seq, 1, k - 1)

\* what children() did, with the children in another order
Reordered(c, k, rev) ==
    [c EXCEPT !.out = Rotate(IF rev THEN Reverse(c.out) ELSE c.out, k)]

\* the callback, then the start of the loop over the reordered children
ExpandOrdered(c, k, rev) ==
    /\ k <= Len(c.out) \/ k = 1
    /\ Expand(Reordered(c, k, rev))

\* entry of alpha_beta_search, the children in one of the orders
CallOrdered ==
    /\ err = "none"
    /\ stack # <<>>
    /\ Top.pc = "enter"
    /\ \/ ReturnAtDepth0
       \/ \E k \in 1..MaxRotation, rev \in BOOLEAN :
             ExpandOrdered(children(rules, gf, heap, Top.node), k, rev)
    /\ UNCHANGED <<rules, pruned>>
    /\ FieldSide

NextAnyOrder == CallOrdered \/ Descend \/ Ascend \/ Leave

\* the start fields of these searches: those of up to MaxOrderCells cells
OrderFields == {f \in SearchFields : Len(f.gf.field) <= MaxOrderCells}

InitAnyOrder ==
    \E f \in OrderFields, r \in RuleSets, max_player \in BOOLEAN :
      \E depth \in Depths(f.gf) :
        /\ gf = f.gf
        /\ heap = f.heap
        /\ rules = r
        /\ stack = <<Frame(GameNode(None, max_player, FALSE), depth, -Inf, Inf,
                           max_player, TRUE, Structures(f.gf, f.heap))>>
        /\ counter = 0
        /\ err = "none"
        /\ all_made = TRUE
        /\ pruned = FALSE
        /\ moves = <<>>
        /\ calls = 0
        /\ last = NoCall

SpecAnyOrder == InitAnyOrder /\ [][NextAnyOrder]_vars

\* C37: whatever the order of the children of each node, a root call with
\* the full window returns the value that depends on the start field, the
\* rule set, the starting player and the depth alone: that of plain minimax,
\* which has no order
C37_ValueIndependentOfOrdering ==
    (RootDone /\ stack[1].entry = Structures(gf, heap)) =>
        stack[1].ret.value = Minimax(gf, heap, stack[1].node, stack[1].depth,
                                     stack[1].maximising_player)

\* C37 witness: a finished search of depth >= 2 in which a cutoff left a
\* sibling unsearched and the root's children were not in heuristic order
C37_Witness ==
    /\ RootDone
    /\ stack[1].depth >= 2
    /\ pruned
    /\ Len(stack[1].children) >= 2
    /\ stack[1].children # children(rules, gf, heap, stack[1].node).out
    /\ stack[1].ret.value # value(gf, heap)

\* ------------------------------------------------------------------------
\* Players and plies (checked under SpecSearch)
\* ------------------------------------------------------------------------
\* C38: every child, real move or skip, has the other player to move than
\* its parent and has skipped_before exactly if its move is the skip; every
\* activation's maximising flag is its node's player, and every recursive
\* call, for a skip as for a real move, has the child's node, the other
\* flag and one ply of depth less
C38_PlayersAlternate ==
    err = "none" =>
      /\ \A i \in 1..Len(stack) :
            /\ stack[i].maximising_player = stack[i].node.max_player
            /\ \A k \in 1..Len(stack[i].children) :
                  /\ stack[i].children[k].max_player = ~stack[i].node.max_player
                  /\ stack[i].children[k].skipped_before
                        <=> is_skip_move(stack[i].children[k].move)
      /\ \A i \in 1..(Len(stack) - 1) :
            /\ stack[i + 1].node = stack[i].children[stack[i].idx]
            /\ stack[i + 1].node.max_player = ~stack[i].node.max_player
            /\ stack[i + 1].maximising_player = ~stack[i].maximising_player
            /\ stack[i + 1].depth = stack[i].depth - 1

\* C38 witness: a real move, then a skip, then a real move again: the
\* activation for the skip has skipped_before, the one after it has not,
\* and is two plies below the first
C38_Witness ==
    /\ err = "none"
    /\ Len(stack) >= 4
    /\ ~is_skip_move(stack[2].node.move)
    /\ is_skip_move(stack[3].node.move)
    /\ stack[3].node.skipped_before
    /\ ~is_skip_move(stack[4].node.move)
    /\ ~stack[4].node.skipped_before
    /\ stack[4].depth = stack[2].depth - 2
    /\ stack[4].maximising_player = stack[2].maximising_player
    /\ Len(stack[4].children) >= 1

\* ------------------------------------------------------------------------
\* Play on a constructed field: make_move with moves a rule set allows, by
\* either player, and take_back of made moves, in any order
\* ------------------------------------------------------------------------
\* move = Move(from_pos, to_pos), allowed to the player by the rule set;
\* game_field.make_move(move=move)
PlayMove(player, from_pos, to_pos) ==
    /\ allows_move(rules, gf, heap, player, from_pos, to_pos)
    /\ MakeMove(from_pos, to_pos)

NextPlay ==
    \/ \E player \in {gf.player1, gf.player2} :
         \E from_pos \in BoardPositions(gf.height, gf.width),
            to_pos \in BoardPositions(gf.height, gf.width) :
            PlayMove(player, from_pos, to_pos)
    \/ \E i \in 1..MaxMoves : TakeBack(i)

InitPlay ==
    \E f \in CanonicalFields, r \in RuleSets :
        /\ gf = f.gf
        /\ heap = f.heap
        /\ moves = <<>>
        /\ calls = 0
        /\ last = NoCall
        /\ rules = r
        /\ stack = <<>>
        /\ counter = 0
        /\ err = "none"
        /\ all_made = TRUE
        /\ pruned = FALSE

SpecPlay == InitPlay /\ [][NextPlay]_vars

\* the number of bricks of a player on the field
BrickCount(g, hp, player) ==
    Cardinality({b \in (1..Len(g.field)) \X (1..Len(g.field)) :
                    /\ b[2] <= Len(hp[g.field[b[1]]])
                    /\ hp[g.field[b[1]]][b[2]] = player})

\* the bricks on the field, counted by player
BrickBag(g, hp) == [player \in {g.player1, g.player2} |-> BrickCount(g, hp, player)]

\* the bricks the constructor put on the field
InitialBag(g) ==
    BrickBag(GameField_init(g.height, g.width, g.player1, g.player2).gf,
             GameField_init(g.height, g.width, g.player1, g.player2).heap)

\* the number of towers of height > 0
NonEmptyTowers(g, hp) == Cardinality({i \in 1..Len(g.field) : Len(hp[g.field[i]]) > 0})

\* C39: after every call the field holds the bricks the constructor put on
\* it, one for one by player, so the heights sum to the number of cells; a
\* successful make_move leaves one tower of height > 0 less, a successful
\* take_back one more, and a call that raises leaves their number alone
C39_BricksConserved ==
    [][/\ BrickBag(gf', heap') = InitialBag(gf')
       /\ Bricks(gf', heap') = gf'.height * gf'.width
       /\ (last'.op = "make_move" /\ last'.exc = "none" /\ last'.ret) =>
             NonEmptyTowers(gf', heap') = NonEmptyTowers(gf, heap) - 1
       /\ (last'.op = "take_back" /\ last'.exc = "none") =>
             NonEmptyTowers(gf', heap') = NonEmptyTowers(gf, heap) + 1
       /\ last'.exc # "none" => NonEmptyTowers(gf', heap') = NonEmptyTowers(gf, heap)
       /\ last'.op = "make_move" => (last'.exc = "none" /\ last'.ret)
      ]_vars

\* C39 witness: two moves were made and the first of them has been taken
\* back while the second is still made
C39_Witness ==
    /\ last.op = "take_back"
    /\ last.exc = "none"
    /\ last.index = 1
    /\ Len(moves) = 1
    /\ calls = 3
    /\ NonEmptyTowers(gf, heap) = gf.height * gf.width - 1
    /\ BrickBag(gf, heap) = InitialBag(gf)

\* ------------------------------------------------------------------------
\* The two starting players on boards of an even number of cells (checked
\* under SpecCanonical)
\* ------------------------------------------------------------------------
\* the root call, had the other player moved first: the value of plain
\* minimax, which the search returns
ValueOtherStarter(f, root) ==
    Minimax(f.gf, f.heap, Opponent(root.node), root.depth, ~root.maximising_player)

\* a search of main's depth under the base rule set on a board of an even
\* number of cells has ended
EvenBoardDone ==
    /\ RootDone
    /\ rules = "base"
    /\ (gf.height * gf.width) % 2 = 0
    /\ stack[1].depth = FullDepth(gf)

====
